---- MODULE Spec2Model ----
(***************************************************************************)
(* A model of sws, the HTTP/1.0 server of src/src: the request handler     *)
(* httpd() with its path resolver checkuri(), the response composer        *)
(* coderesp(), the static file server, the directory lister and the CGI    *)
(* executor, over a small file system.                                     *)
(*                                                                         *)
(* C strings are sequences of one-character strings, so that strstr,       *)
(* strncasecmp, strtok, strlen and the buffer arithmetic of the source are *)
(* computed on characters as the code computes them.                       *)
(***************************************************************************)
EXTENDS Integers, Sequences, FiniteSets, TLC

(***************************************************************************)
(* Characters and the string functions of libc that the source calls.      *)
(***************************************************************************)
Range(s) == {s[i] : i \in 1..Len(s)}

Upper == <<"A","B","C","D","E","F","G","H","I","J","K","L","M",
           "N","O","P","Q","R","S","T","U","V","W","X","Y","Z">>

Lower == <<"a","b","c","d","e","f","g","h","i","j","k","l","m",
           "n","o","p","q","r","s","t","u","v","w","x","y","z">>

Digits == <<"0","1","2","3","4","5","6","7","8","9">>

\* The characters of the model in ASCII order (strcmp and alphasort compare
\* bytes; the C locale is the one the server runs in).
Ascii == <<"\t","\n","\r"," ","!","#","%","&","+","-",".","/">> \o Digits
         \o <<":",";","<","=",">","?","@">> \o Upper \o <<"_">> \o Lower
         \o <<"~">>

Ord(c) == CHOOSE i \in 1..Len(Ascii) : Ascii[i] = c

ToLower(c) == IF c \in Range(Upper)
              THEN Lower[CHOOSE i \in 1..26 : Upper[i] = c]
              ELSE c

LowerStr(s) == [i \in 1..Len(s) |-> ToLower(s[i])]

Min(a, b) == IF a < b THEN a ELSE b

Take(s, n) == SubSeq(s, 1, Min(n, Len(s)))

Drop(s, n) == SubSeq(s, n + 1, Len(s))

\* strncasecmp(a, b, n) == 0
StrNCaseEq(a, b, n) == LowerStr(Take(a, n)) = LowerStr(Take(b, n))

\* strcasecmp(a, b) == 0
StrCaseEq(a, b) == LowerStr(a) = LowerStr(b)

\* strstr(hay, needle) == hay
IsPrefix(needle, hay) == Len(needle) <= Len(hay) /\ Take(hay, Len(needle)) = needle

\* strstr(hay, needle) != NULL
StrStr(hay, needle) ==
  \E i \in 0..(Len(hay) - Len(needle)) : SubSeq(hay, i + 1, i + Len(needle)) = needle

\* Index of the first character of s that is in D, or Len(s) + 1.
FirstIn(s, D) ==
  IF \E i \in 1..Len(s) : s[i] \in D
  THEN CHOOSE i \in 1..Len(s) : s[i] \in D /\ \A j \in 1..(i - 1) : s[j] \notin D
  ELSE Len(s) + 1

\* All the tokens successive strtok(s, D) calls return: the maximal runs of
\* characters that are not in D.
RECURSIVE Tokens(_, _)
Tokens(s, D) ==
  IF s = <<>> THEN <<>>
  ELSE IF Head(s) \in D THEN Tokens(Tail(s), D)
  ELSE <<SubSeq(s, 1, FirstIn(s, D) - 1)>> \o Tokens(SubSeq(s, FirstIn(s, D), Len(s)), D)

\* strcmp(a, b) < 0 on bytes
RECURSIVE StrLess(_, _)
StrLess(a, b) ==
  IF b = <<>> THEN FALSE
  ELSE IF a = <<>> THEN TRUE
  ELSE IF Head(a) = Head(b) THEN StrLess(Tail(a), Tail(b))
  ELSE Ord(Head(a)) < Ord(Head(b))

\* n copies of the character c
Rep(c, n) == [i \in 1..n |-> c]

RECURSIVE Concat(_)
Concat(ss) == IF ss = <<>> THEN <<>> ELSE Head(ss) \o Concat(Tail(ss))

isspace(c) == c \in {" ", "\t", "\n", "\r"}

\* The value of a run of leading digits.
RECURSIVE DigitsValue(_, _)
DigitsValue(s, acc) ==
  IF s = <<>> \/ Head(s) \notin Range(Digits) THEN acc
  ELSE DigitsValue(Tail(s), 10 * acc + (Ord(Head(s)) - Ord("0")))

\* atoi(s)
RECURSIVE atoi(_)
atoi(s) ==
  IF s = <<>> THEN 0
  ELSE IF isspace(Head(s)) THEN atoi(Tail(s))
  ELSE IF Head(s) = "-" THEN 0 - DigitsValue(Tail(s), 0)
  ELSE IF Head(s) = "+" THEN DigitsValue(Tail(s), 0)
  ELSE DigitsValue(s, 0)

\* The decimal text of n >= 0 ("%d").
RECURSIVE itoa(_)
itoa(n) == IF n < 10 THEN <<Digits[n + 1]>> ELSE itoa(n \div 10) \o <<Digits[(n % 10) + 1]>>

(***************************************************************************)
(* The file system the server runs on.  A node is named by its canonical   *)
(* path, a sequence of path components.  r and x are the permissions the    *)
(* server's user has on the node; target is the path a symlink points to;  *)
(* data is the node's content, st_size bytes long.                         *)
(***************************************************************************)
NULL == <<"\\NULL">>

INDEX_HTML == <<"i","n","d","e","x",".","h","t","m","l">>

Dir(m) ==
  [type |-> "dir", r |-> TRUE, x |-> TRUE, mtime |-> m, data |-> <<"#","#","#","#">>,
   target |-> <<>>]

File(r, x, m, d) ==
  [type |-> "file", r |-> r, x |-> x, mtime |-> m, data |-> d, target |-> <<>>]

Link(t) ==
  [type |-> "link", r |-> TRUE, x |-> TRUE, mtime |-> 0, data |-> <<>>, target |-> t]

\* An entry whose inode the device fails to read.
Bad ==
  [type |-> "bad", r |-> TRUE, x |-> TRUE, mtime |-> 0, data |-> <<>>, target |-> <<>>]

\* The longest name a directory entry has.
NAME_MAX == 255

\* first, then filler characters up to n characters in all.
LongName(first, n) == <<first>> \o [i \in 1..(n - 1) |-> "x"]

\* Fifteen names of NAME_MAX characters.
LongNames == {LongName(Upper[i], NAME_MAX) : i \in 1..15}

\* The name that, after the title and heading of a listing of a directory
\* with a one-character name and the fifteen long names, is two characters
\* shorter than what is left of a 4096-byte buffer.
TightName == LongName("z", 133)

\* /w is the served root; /wp shares the root's name as a prefix; /x is
\* outside the root and holds a directory named like the root; /c is the CGI
\* directory and /cg a program beside it; /h/u is the home of user u; /w/t
\* and /w/r are directories of long names; /w/io sits on a bad block.
FS ==
     <<>>                            :> Dir(4)
  @@ <<<<"w">>>>                     :> Dir(4)
  @@ <<<<"w">>, <<"a">>>>            :> File(TRUE, FALSE, 5, <<"h","e","l","l","o">>)
  @@ <<<<"w">>, <<"n">>>>            :> File(FALSE, FALSE, 5, <<"n","o">>)
  @@ <<<<"w">>, <<"d">>>>            :> Dir(6)
  @@ <<<<"w">>, <<"d">>, INDEX_HTML>> :> File(TRUE, FALSE, 6, <<"<","i",">">>)
  @@ <<<<"w">>, <<"e">>>>            :> Dir(4)
  @@ <<<<"w">>, <<"e">>, <<"b">>>>   :> File(TRUE, FALSE, 4, <<"b">>)
  @@ <<<<"w">>, <<"e">>, <<".","h">>>> :> File(TRUE, FALSE, 4, <<"h">>)
  @@ <<<<"w">>, <<"e">>, <<"a">>>>   :> File(TRUE, FALSE, 4, <<"a">>)
  @@ <<<<"w">>, <<"u">>>>            :> Dir(4)
  @@ <<<<"w">>, <<"u">>, INDEX_HTML>> :> File(FALSE, FALSE, 4, <<"u">>)
  @@ <<<<"w">>, <<"v">>>>            :> Dir(4)
  @@ <<<<"w">>, <<"v">>, INDEX_HTML>> :> Dir(4)
  @@ <<<<"w">>, <<"l">>>>            :> Dir(4)
  @@ <<<<"w">>, <<"l">>, INDEX_HTML>> :> Link(<<"/","x","/","f">>)
  @@ <<<<"w">>, <<"s">>>>            :> Link(<<"/","x">>)
  @@ <<<<"w">>, <<"o">>>>            :> Link(<<"/","w","/","o">>)
  @@ <<<<"w">>, <<"i","o">>>>        :> Bad
  @@ <<<<"w","p">>>>                 :> Dir(4)
  @@ <<<<"w","p">>, <<"k">>>>        :> File(TRUE, FALSE, 5, <<"k","e","y">>)
  @@ <<<<"x">>>>                     :> Dir(4)
  @@ <<<<"x">>, <<"f">>>>            :> File(TRUE, FALSE, 5, <<"s","e","c","r","e","t">>)
  @@ <<<<"x">>, <<"w">>>>            :> Dir(4)
  @@ <<<<"x">>, <<"w">>, <<"f">>>>   :> File(TRUE, FALSE, 5, <<"f">>)
  @@ <<<<"c">>>>                     :> Dir(4)
  @@ <<<<"c">>, <<"g">>>>            :> File(TRUE, TRUE, 5, <<"#","!">>)
  @@ <<<<"c">>, <<"q">>>>            :> File(TRUE, FALSE, 5, <<"q">>)
  @@ <<<<"c","g">>>>                 :> File(TRUE, TRUE, 5, <<"#","!">>)
  @@ <<<<"h">>>>                     :> Dir(4)
  @@ <<<<"h">>, <<"u">>>>            :> Dir(4)
  @@ <<<<"h">>, <<"u">>, <<"p">>>>   :> File(TRUE, FALSE, 5, <<"p">>)
  @@ <<<<"w">>, <<"t">>>>            :> Dir(4)
  @@ <<<<"w">>, <<"r">>>>            :> Dir(4)
  @@ [p \in {<<<<"w">>, <<"t">>, n>> : n \in LongNames \cup {TightName}}
        |-> File(TRUE, FALSE, 4, <<"t">>)]
  @@ [p \in {<<<<"w">>, <<"r">>, n>> : n \in LongNames \cup {LongName("z", NAME_MAX)}}
        |-> File(TRUE, FALSE, 4, <<"r">>)]

\* The password database: login name -> home directory.
Passwd == <<"u">> :> <<"/","h","/","u">>

PATH_MAX == 4096

LOGIN_NAME_MAX == 9

\* The number of symlinks a lookup follows before it fails with ELOOP.
MAXSYMLINKS == 2

Segments(path) == Tokens(path, {"/"})

Parent(node) == IF node = <<>> THEN <<>> ELSE SubSeq(node, 1, Len(node) - 1)

\* The canonical absolute path string of a node.
RECURSIVE JoinPath(_)
JoinPath(node) ==
  IF node = <<>> THEN <<"/">>
  ELSE IF Len(node) = 1 THEN <<"/">> \o node[1]
  ELSE JoinPath(Parent(node)) \o <<"/">> \o node[Len(node)]

\* Path lookup as the kernel does it: cur is the node reached so far, rest
\* the components still to walk, hops the symlinks followed.
RECURSIVE Walk(_, _, _)
Walk(cur, rest, hops) ==
  IF rest = <<>> THEN [err |-> "OK", node |-> cur]
  ELSE IF FS[cur].type # "dir" THEN [err |-> "ENOTDIR", node |-> cur]
  ELSE IF ~FS[cur].x THEN [err |-> "EACCES", node |-> cur]
  ELSE IF Head(rest) = <<".">> THEN Walk(cur, Tail(rest), hops)
  ELSE IF Head(rest) = <<".", ".">> THEN Walk(Parent(cur), Tail(rest), hops)
  ELSE IF Append(cur, Head(rest)) \notin DOMAIN FS THEN [err |-> "ENOENT", node |-> cur]
  ELSE IF FS[Append(cur, Head(rest))].type = "bad" THEN [err |-> "EIO", node |-> cur]
  ELSE IF FS[Append(cur, Head(rest))].type # "link"
       THEN Walk(Append(cur, Head(rest)), Tail(rest), hops)
  ELSE IF hops >= MAXSYMLINKS THEN [err |-> "ELOOP", node |-> cur]
  ELSE Walk(<<>>, Segments(FS[Append(cur, Head(rest))].target) \o Tail(rest), hops + 1)

Lookup(path) ==
  IF path = <<>> THEN [err |-> "ENOENT", node |-> <<>>]
  ELSE IF Len(path) > PATH_MAX THEN [err |-> "ENAMETOOLONG", node |-> <<>>]
  ELSE Walk(<<>>, Segments(path), 0)

\* The permission check of access() on the outcome w of the lookup.
Permitted(w, mode) ==
  IF w.err # "OK" THEN w.err
  ELSE IF "R" \in mode /\ ~FS[w.node].r THEN "EACCES"
  ELSE IF "X" \in mode /\ ~FS[w.node].x THEN "EACCES"
  ELSE "OK"

\* access(path, mode): "OK" or the errno.  mode is a subset of {"R", "X"}.
access(path, mode) == Permitted(Lookup(path), mode)

\* The path realpath() stores for the outcome w of the lookup.
Resolved(w) == IF w.err = "OK" THEN JoinPath(w.node) ELSE NULL

\* realpath(path, resolved): the canonical path, or NULL.
realpath(path) == Resolved(Lookup(path))

\* What stat() stores for the outcome w of the lookup.
StatOf(w) ==
  IF w.err = "OK" THEN [ok |-> TRUE, sb |-> FS[w.node]]
  ELSE [ok |-> FALSE, sb |-> FS[<<>>]]

\* stat(path, &sb): ok is FALSE when stat returns -1, else sb is the node.
stat(path) == StatOf(Lookup(path))

S_ISDIR(sb) == sb.type = "dir"

st_size(sb) == Len(sb.data)

\* getpwnam(name)->pw_dir, or NULL
getpwnam(name) == IF name \in DOMAIN Passwd THEN Passwd[name] ELSE NULL

(***************************************************************************)
(* http.h: methods and status codes.                                       *)
(***************************************************************************)
REQUEST_METHOD_GET == 1

REQUEST_METHOD_HEAD == 2

REQUEST_METHOD_POST == 3

RESPONSE_STATUS_OK == 200

RESPONSE_STATUS_BAD_REQUEST == 400

RESPONSE_STATUS_FORBIDDEN == 403

RESPONSE_STATUS_NOT_FOUND == 404

RESPONSE_STATUS_NOT_IMPLEMENTED == 501

RESPONSE_STATUS_VERSION_NOT_SUPPORTED == 505

RESPONSE_STATUS_CONNECTION_TIMED_OUT == 522

RESPONSE_STATUS_INTERNAL_SERVER_ERROR == 500

CGI_PREFIX == <<"/","c","g","i","-","b","i","n","/">>

\* The content of a buffer the code reads before writing it.
Uninit == <<"\\uninit">>

(***************************************************************************)
(* check_index_html(path, index_html): the string left in index_html.      *)
(***************************************************************************)
IndexPath(path) ==
  IF path[Len(path)] = "/" THEN path \o INDEX_HTML ELSE path \o <<"/">> \o INDEX_HTML

\* An index test that asks only whether the entry exists.
IndexExists(index_html, sti) == sti.ok

\* Lines 1023-1031: index_html exists, is no directory and can be read.
IndexUsable(index_html, sti) ==
  sti.ok /\ ~S_ISDIR(sti.sb) /\ access(index_html, {"R"}) = "OK"

\* Lines 1002-1048 with st what stat(path) gave.
IndexOf(path, st) ==
  IF ~st.ok THEN path
  ELSE IF ~S_ISDIR(st.sb) THEN path
  ELSE IF /\ Len(path) + Len(INDEX_HTML) < PATH_MAX
          /\ IndexUsable(IndexPath(path), stat(IndexPath(path)))
       THEN IndexPath(path)
  ELSE path

check_index_html(path) == IndexOf(path, stat(path))

(***************************************************************************)
(* checkuri(request, &uri_status, flag, realpath_str, &cgi_request).       *)
(* The result holds what the call leaves in its out-parameters: status is  *)
(* *uri_status, realpath_str the caller's buffer, cgi the flag, request    *)
(* the request with the path and query string the call rewrote; uri_path   *)
(* and server_real_path are the candidate and the root it was held to.     *)
(***************************************************************************)
UriFail(status, cgi, request) ==
  [ret |-> -1, status |-> status, realpath_str |-> Uninit, cgi |-> cgi,
   request |-> request, uri_path |-> Uninit, server_real_path |-> Uninit]

\* An access check that asks for read permission only.
AccessModeRead(cgi, method) == {"R"}

\* The access mode checkuri asks for (lines 890-909).
AccessMode(cgi, method) ==
  IF cgi THEN {"R", "X"}
  ELSE IF method \in {REQUEST_METHOD_GET, REQUEST_METHOD_HEAD} THEN {"R"}
  ELSE {"R", "X"}

\* The status checkuri gives for an errno of access() (lines 911-947).
AccessErrorStatus(errno) ==
  CASE errno \in {"EACCES", "EROFS"} -> RESPONSE_STATUS_FORBIDDEN
    [] errno \in {"ENAMETOOLONG", "ELOOP"} -> RESPONSE_STATUS_BAD_REQUEST
    [] errno \in {"ENOENT", "ENOTDIR"} -> RESPONSE_STATUS_NOT_FOUND
    [] OTHER -> RESPONSE_STATUS_INTERNAL_SERVER_ERROR

\* The containment test of line 963.
WithinServerDir(uri_real_path, server_real_path) ==
  StrStr(uri_real_path, server_real_path)

\* Lines 955-983: the candidate is canonicalised and held to the root.
Contained(request, uri_path, server_real_path, cgi, uri_real_path) ==
  IF uri_real_path = NULL
  THEN UriFail(RESPONSE_STATUS_INTERNAL_SERVER_ERROR, cgi, request)
  ELSE IF WithinServerDir(uri_real_path, server_real_path)
       THEN [ret |-> 0, status |-> RESPONSE_STATUS_OK,
             realpath_str |-> IF cgi THEN uri_real_path
                              ELSE check_index_html(uri_real_path),
             cgi |-> cgi, request |-> request, uri_path |-> uri_path,
             server_real_path |-> server_real_path]
  ELSE [ret |-> -1, status |-> RESPONSE_STATUS_FORBIDDEN,
        realpath_str |-> Uninit, cgi |-> cgi, request |-> request,
        uri_path |-> uri_path, server_real_path |-> server_real_path]

\* Lines 911-953: errno is what access() gave.
Accessed(request, uri_path, server_real_path, cgi, errno) ==
  IF errno # "OK"
  THEN [ret |-> -1, status |-> AccessErrorStatus(errno),
        realpath_str |-> Uninit, cgi |-> cgi, request |-> request,
        uri_path |-> uri_path, server_real_path |-> server_real_path]
  ELSE Contained(request, uri_path, server_real_path, cgi, realpath(uri_path))

\* Lines 890-987: the access check, canonicalisation and containment test
\* on the candidate uri_path against server_real_path.
CheckCandidate(request, uri_path, server_real_path, cgi) ==
  Accessed(request, uri_path, server_real_path, cgi,
           access(uri_path, AccessMode(cgi, request.method)))

\* Lines 755-790: the candidate under the home directory.
UserHome(request, rest, server_real_path) ==
  IF server_real_path = NULL
  THEN UriFail(RESPONSE_STATUS_NOT_FOUND, FALSE, request)
  ELSE IF Len(server_real_path) + Len(rest) > PATH_MAX
       THEN UriFail(RESPONSE_STATUS_BAD_REQUEST, FALSE, request)
  ELSE CheckCandidate(request, server_real_path \o rest, server_real_path, FALSE)

\* Lines 730-753: the user name is the first i characters of userdir.
UserNamed(request, userdir, i) ==
  IF i > LOGIN_NAME_MAX THEN UriFail(RESPONSE_STATUS_BAD_REQUEST, FALSE, request)
  ELSE IF getpwnam(Take(userdir, i)) = NULL
       THEN UriFail(RESPONSE_STATUS_NOT_FOUND, FALSE, request)
  ELSE UserHome(request, Drop(userdir, i), realpath(getpwnam(Take(userdir, i))))

\* Lines 720-790: the /~username form.
CheckUserDir(request, flag) ==
  UserNamed(request, Drop(request.path, 2), FirstIn(Drop(request.path, 2), {"/"}) - 1)

\* Lines 803-826: joined is c_dir and what follows /cgi-bin/, q the place
\* of its first '?'.
CgiJoined(request, joined, q, server_real_path) ==
  IF server_real_path = NULL
  THEN UriFail(RESPONSE_STATUS_NOT_FOUND, TRUE, request)
  ELSE CheckCandidate(
         [request EXCEPT !.querystring =
            IF q <= Len(joined) THEN Take(Drop(joined, q), 255 - 13)
            ELSE request.querystring],
         Take(joined, q - 1), server_real_path, TRUE)

\* Lines 792-826: the /cgi-bin/ form with a CGI directory configured.
CheckCgiBin(request, flag) ==
  IF Len(flag.c_dir) + Len(Drop(request.path, 8)) > PATH_MAX
  THEN UriFail(RESPONSE_STATUS_BAD_REQUEST, FALSE, request)
  ELSE CgiJoined(request, flag.c_dir \o Drop(request.path, Len(CGI_PREFIX)),
                 FirstIn(flag.c_dir \o Drop(request.path, Len(CGI_PREFIX)), {"?"}),
                 realpath(flag.c_dir))

\* Lines 834-855: truncated is the request with its path cut at the '?',
\* query_len the length of what follows the '?'.
QueryCut(truncated, flag, query_len) ==
  IF Len(flag.c_dir) + Len(truncated.path) > PATH_MAX \/ query_len > PATH_MAX
  THEN UriFail(RESPONSE_STATUS_BAD_REQUEST, TRUE, truncated)
  ELSE IF realpath(flag.dir) = NULL
       THEN UriFail(RESPONSE_STATUS_INTERNAL_SERVER_ERROR, TRUE, truncated)
  ELSE CheckCandidate(truncated, flag.c_dir \o truncated.path, realpath(flag.dir), TRUE)

\* Lines 828-856: a path with a '?' outside /cgi-bin/, CGI directory
\* configured.
CheckQuery(request, flag) ==
  QueryCut([request EXCEPT !.path = Take(request.path, FirstIn(request.path, {"?"}) - 1)],
           flag, Len(request.path) - FirstIn(request.path, {"?"}))

\* Lines 870-887: the candidate under the served directory.
ServerDir(request, server_real_path) ==
  IF server_real_path = NULL
  THEN UriFail(RESPONSE_STATUS_INTERNAL_SERVER_ERROR, FALSE, request)
  ELSE IF Len(server_real_path) + Len(request.path) > PATH_MAX
       THEN UriFail(RESPONSE_STATUS_BAD_REQUEST, FALSE, request)
  ELSE CheckCandidate(request, server_real_path \o request.path,
                      server_real_path, FALSE)

\* Lines 858-888: the default form, under the served directory.
CheckServerDir(request, flag) == ServerDir(request, realpath(flag.dir))

checkuri(request, flag) ==
  IF IsPrefix(<<"/", "~">>, request.path) THEN CheckUserDir(request, flag)
  ELSE IF IsPrefix(CGI_PREFIX, request.path) /\ flag.c_dir # NULL
       THEN CheckCgiBin(request, flag)
  ELSE IF flag.c_dir # NULL /\ "?" \in Range(request.path)
       THEN CheckQuery(request, flag)
  ELSE CheckServerDir(request, flag)

(***************************************************************************)
(* util.c: times and HTTP dates.  A time_t is an integer; a broken-down    *)
(* time (struct tm) is the integer civil time it denotes.  In an HTTP date *)
(* the fields "date SP time" are abstracted to one digit, the civil time;  *)
(* the weekday, the separators and "GMT" are kept, so the three formats of *)
(* RFC 1945 differ as they do on the wire.                                 *)
(***************************************************************************)
MaxTz == 1

\* The offsets of the server's local time zone from GMT.
TzOffsets == (0 - MaxTz)..MaxTz

WkDay == <<"S","a","t">>

WeekDay == <<"S","a","t","u","r","d","a","y">>

GMT == <<" ","G","M","T">>

\* The text of civil time c in the format fmt.
DateText(fmt, c) ==
  CASE fmt = "rfc1123" -> WkDay \o <<",", " ">> \o <<Digits[c + 1]>> \o GMT
    [] fmt = "rfc850" -> WeekDay \o <<",", " ", "-">> \o <<Digits[c + 1]>> \o GMT
    [] fmt = "asctime" -> WkDay \o <<" ">> \o <<Digits[c + 1]>>

\* strptime(date, fmt, &tm): ok is FALSE when it returns NULL.  Characters
\* after the parsed fields are left unread, as strptime leaves them.
strptime(date, fmt) ==
  IF \E c \in 0..9 : IsPrefix(DateText(fmt, c), date)
  THEN [ok |-> TRUE, tm |-> CHOOSE c \in 0..9 : IsPrefix(DateText(fmt, c), date)]
  ELSE [ok |-> FALSE, tm |-> 0]

\* mktime(&tm) reads tm as local time, tz ahead of GMT.
mktime(tm, tz) == tm - tz

gmtime_r(time) == time

local_to_gmtime(time, tz) == mktime(gmtime_r(time), tz)

\* Lines 220-238: the format the date is parsed in.
DateFormat(date) ==
  IF FirstIn(date, {","}) > Len(date) THEN "asctime"
  ELSE IF FirstIn(date, {","}) - 1 = 3 THEN "rfc1123"
  ELSE "rfc850"

\* Lines 222-249 with p what strptime gave.
DateStored(p, old, tz) ==
  IF ~p.ok THEN [ret |-> -1, time |-> old]
  ELSE IF mktime(p.tm, tz) = -1 THEN [ret |-> -1, time |-> old]
  ELSE [ret |-> 0, time |-> mktime(p.tm, tz)]

\* http_date_to_time(date, dst): ret is the return value, time what is
\* stored in *dst (the old value old when nothing is stored).
http_date_to_time(date, old, tz) == DateStored(strptime(date, DateFormat(date)), old, tz)

\* time_to_http_date(time, dst, dst_len): the string left in dst.
time_to_http_date(time) == DateText("rfc1123", gmtime_r(time))

(***************************************************************************)
(* http.c: requests and responses.                                         *)
(***************************************************************************)
BUF_SIZE == 4096

CR == "\r"

LF == "\n"

CRLF == <<CR, LF>>

HTTP_VERSION_1 == <<"H","T","T","P","/","1",".","0">>

IF_MODIFIED_SINCE_PREFIX == <<"I","f","-","M","o","d","i","f","i","e","d","-","S","i","n",
    "c","e",":">>

CONTENT_LENGTH_PREFIX == <<"C","o","n","t","e","n","t","-","L","e","n","g","t","h",":">>

CONTENT_TYPE_PREFIX == <<"C","o","n","t","e","n","t","-","T","y","p","e",":">>

SERVER_ID == <<"s","w","s","/","1",".","0">>

TEXT_HTML == <<"t","e","x","t","/","h","t","m","l">>

init_request ==
  [method |-> -1, version_major |-> -1, version_minor |-> -1,
   if_modified_since_date |-> -1, content_length |-> -1,
   content_type |-> <<>>, path |-> <<>>, querystring |-> <<>>]

init_response(code) ==
  [code |-> code, content_length |-> 0, content_type |-> <<>>, last_modified |-> -1]

\* Lines 207-211: the characters of s after its leading white space.
RECURSIVE SkipSpaces(_)
SkipSpaces(s) ==
  IF s # <<>> /\ isspace(Head(s)) THEN SkipSpaces(Tail(s)) ELSE s

\* The tests of lines 199-201, 228-230 and 235-237.
HasPrefix(header_line, prefix, more) ==
  /\ Len(header_line) > Len(prefix) + more
  /\ StrNCaseEq(header_line, prefix, Len(prefix))

\* Lines 228-234.
WithLength(request, header_line) ==
  IF HasPrefix(header_line, CONTENT_LENGTH_PREFIX, 2)
  THEN [request EXCEPT !.content_length =
          atoi(Drop(header_line, Len(CONTENT_LENGTH_PREFIX) + 1))]
  ELSE request

\* Lines 235-241.
WithType(request, header_line) ==
  IF HasPrefix(header_line, CONTENT_TYPE_PREFIX, 2)
  THEN [request EXCEPT !.content_type =
          Take(Drop(header_line, Len(CONTENT_TYPE_PREFIX) + 1), 63)]
  ELSE request

\* Lines 222-241 with t what http_date_to_time gave.
WithDate(request, header_line, t) ==
  IF t.ret < 0 THEN [request |-> request, failed |-> TRUE]
  ELSE [request |-> WithType(WithLength([request EXCEPT !.if_modified_since_date = t.time],
                                        header_line), header_line),
        failed |-> FALSE]

\* Lines 199-241: one header line.  failed is header_parsing_failed.
ParseHeaderLine(request, header_line, tz) ==
  IF HasPrefix(header_line, IF_MODIFIED_SINCE_PREFIX, 0)
  THEN WithDate(request, header_line,
                http_date_to_time(
                  SkipSpaces(Drop(header_line, Len(IF_MODIFIED_SINCE_PREFIX))),
                  request.if_modified_since_date, tz))
  ELSE [request |-> WithType(WithLength(request, header_line), header_line),
        failed |-> FALSE]

\* Lines 196-244: the loop over the lines strtok returns after the request
\* line; it stops at the first line whose date does not parse.  one is the
\* outcome of the line before lines.
RECURSIVE HeaderLoop(_, _, _)
HeaderLoop(one, lines, tz) ==
  IF one.failed \/ lines = <<>> THEN one
  ELSE HeaderLoop(ParseHeaderLine(one.request, Head(lines), tz), Tail(lines), tz)

ParseHeaders(request, lines, tz) ==
  HeaderLoop([request |-> request, failed |-> FALSE], lines, tz)

(***************************************************************************)
(* What the server writes to the socket: a sequence of writes.  A status   *)
(* line is [kind "status", code, phrase]; the header block is [kind        *)
(* "headers", fields], the fields in the order written, then the blank     *)
(* line; entity bytes are [kind "body", data]; bytes relayed from a CGI    *)
(* child are [kind "cgi", data].                                           *)
(***************************************************************************)
ReasonPhrase(code) ==
  CASE code = RESPONSE_STATUS_OK -> <<"O","K">>
    [] code = RESPONSE_STATUS_BAD_REQUEST -> <<"B","a","d"," ","R","e","q","u","e","s","t">>
    [] code = RESPONSE_STATUS_FORBIDDEN -> <<"F","o","r","b","i","d","d","e","n">>
    [] code = RESPONSE_STATUS_NOT_FOUND -> <<"N","o","t"," ","F","o","u","n","d">>
    [] code = RESPONSE_STATUS_NOT_IMPLEMENTED -> <<"N","o","t"," ","I","m","p","l","e","m",
        "e","n","t","e","d">>
    [] code = RESPONSE_STATUS_VERSION_NOT_SUPPORTED -> <<"V","e","r","s","i","o","n"," ",
        "N","o","t"," ","S","u","p","p","o","r","t","e","d">>
    [] code = RESPONSE_STATUS_CONNECTION_TIMED_OUT -> <<"C","o","n","n","e","c","t","i","o",
        "n"," ","T","i","m","e","d"," ","O","u","t">>
    [] OTHER -> <<"I","n","t","e","r","n","a","l"," ","S","e","r","v","e","r"," ","E","r",
        "r","o","r">>

KnownCodes ==
  {RESPONSE_STATUS_OK, RESPONSE_STATUS_BAD_REQUEST, RESPONSE_STATUS_FORBIDDEN,
   RESPONSE_STATUS_NOT_FOUND, RESPONSE_STATUS_NOT_IMPLEMENTED,
   RESPONSE_STATUS_VERSION_NOT_SUPPORTED, RESPONSE_STATUS_CONNECTION_TIMED_OUT,
   RESPONSE_STATUS_INTERNAL_SERVER_ERROR}

\* The time() the Date header is made from.
Now == 8

\* A header block with Content-Length ahead of Content-Type.
coderesp_headers_length_first(response) ==
  [kind |-> "headers",
   fields |->
        <<[name |-> "Date", value |-> time_to_http_date(Now)],
          [name |-> "Server", value |-> SERVER_ID]>>
     \o (IF response.last_modified # -1
         THEN <<[name |-> "Last-Modified",
                 value |-> time_to_http_date(response.last_modified)]>>
         ELSE <<>>)
     \o (IF response.content_length >= 0
         THEN <<[name |-> "Content-Length", value |-> itoa(response.content_length)]>>
         ELSE <<>>)
     \o (IF Len(response.content_type) > 0
         THEN <<[name |-> "Content-Type", value |-> response.content_type]>>
         ELSE <<>>)]

\* coderesp_headers(response, socket): the header block written.
coderesp_headers(response) ==
  [kind |-> "headers",
   fields |->
        <<[name |-> "Date", value |-> time_to_http_date(Now)],
          [name |-> "Server", value |-> SERVER_ID]>>
     \o (IF response.last_modified # -1
         THEN <<[name |-> "Last-Modified",
                 value |-> time_to_http_date(response.last_modified)]>>
         ELSE <<>>)
     \o (IF Len(response.content_type) > 0
         THEN <<[name |-> "Content-Type", value |-> response.content_type]>>
         ELSE <<>>)
     \o (IF response.content_length >= 0
         THEN <<[name |-> "Content-Length", value |-> itoa(response.content_length)]>>
         ELSE <<>>)]

\* The status line coderesp writes.
StatusLine(code) == [kind |-> "status", code |-> code, phrase |-> ReasonPhrase(code)]

\* A coderesp that does not look at full_response.
coderesp_unconditional(response, full_response) ==
  <<StatusLine(IF response.code \in KnownCodes THEN response.code
               ELSE RESPONSE_STATUS_INTERNAL_SERVER_ERROR),
    coderesp_headers(response)>>

\* coderesp(response, socket, full_response): the writes it makes.
coderesp(response, full_response) ==
  IF ~full_response THEN <<>>
  ELSE <<StatusLine(IF response.code \in KnownCodes THEN response.code
                    ELSE RESPONSE_STATUS_INTERNAL_SERVER_ERROR),
         coderesp_headers(response)>>

\* The message send_generic_page puts in the title and the body.
PageMessage(code) ==
  itoa(code) \o
  (CASE code = RESPONSE_STATUS_OK -> <<" ","-"," ","O","K">>
     [] code = RESPONSE_STATUS_BAD_REQUEST -> <<" ","-"," ","B","a","d"," ","R","e","q","u",
         "e","s","t">>
     [] code = RESPONSE_STATUS_FORBIDDEN -> <<" ","-"," ","F","o","r","b","i","d","d","e","n">>
     [] code = RESPONSE_STATUS_NOT_FOUND -> <<" ","-"," ","F","i","l","e"," ","N","o","t",
         " ","F","o","u","n","d">>
     [] code = RESPONSE_STATUS_NOT_IMPLEMENTED -> <<" ","-"," ","M","e","t","h","o","d"," ",
         "N","o","t"," ","I","m","p","l","e","m","e","n","t","e","d">>
     [] code = RESPONSE_STATUS_VERSION_NOT_SUPPORTED -> <<" ","-"," ","H","T","T","P"," ",
         "V","e","r","s","i","o","n"," ","N","o","t"," ","S","u","p","p","o","r","t","e",
         "d">>
     [] code = RESPONSE_STATUS_INTERNAL_SERVER_ERROR -> <<" ","-"," ","I","n","t","e","r",
         "n","a","l"," ","S","e","r","v","e","r"," ","E","r","r","o","r">>
     [] OTHER -> <<" ","-"," ","U","n","k","n","o","w","n">>)

HtmlOpen == <<"<","h","t","m","l",">","\r","\n","<","h","e","a","d",">","\r","\n">>

TitleOpen == <<"<","t","i","t","l","e",">","T","e","a","m"," ","G","e","r","o","n","i","m",
    "o"," ","-"," ">>

TitleClose == <<"<","/","t","i","t","l","e",">","\r","\n","<","/","h","e","a","d",">","\r",
    "\n">>

PageBodyOpen == <<"<","b","o","d","y",">","\r","\n","<","h","1",">","T","e","a","m"," ","G",
    "e","r","o","n","i","m","o","<","/","h","1",">","\r","\n">>

POpen == <<"<","p",">">>

PClose == <<"<","/","p",">","\r","\n">>

HtmlClose == <<"<","/","b","o","d","y",">","\r","\n","<","/","h","t","m","l",">","\r","\n">>

\* The page send_generic_page formats into buf (lines 1113-1161).
GenericPage(code, custom_msg) ==
  HtmlOpen \o TitleOpen \o PageMessage(code) \o TitleClose \o PageBodyOpen
  \o POpen \o PageMessage(code) \o PClose
  \o (IF custom_msg # NULL THEN POpen \o custom_msg \o PClose ELSE <<>>)
  \o HtmlClose

\* Lines 1164-1175: the headers, then the page.
SendPage(response, simple_response, page) ==
  [response |-> response,
   writes |-> coderesp(response, ~simple_response) \o <<[kind |-> "body", data |-> page]>>,
   ret |-> 0]

\* A send_generic_page that leaves content_length as it finds it.
send_generic_page_stale_length(response, simple_response, custom_msg) ==
  IF response.code = RESPONSE_STATUS_CONNECTION_TIMED_OUT
  THEN [response |-> response, writes |-> <<>>, ret |-> 0]
  ELSE SendPage([response EXCEPT !.content_type = TEXT_HTML],
                simple_response, GenericPage(response.code, custom_msg))

\* send_generic_page(response, simple_response, socket, custom_msg): the
\* response it leaves, the writes it makes and its return value.
send_generic_page(response, simple_response, custom_msg) ==
  IF response.code = RESPONSE_STATUS_CONNECTION_TIMED_OUT
  THEN [response |-> response, writes |-> <<>>, ret |-> 0]
  ELSE SendPage([response EXCEPT
                   !.content_length = Len(GenericPage(response.code, custom_msg)),
                   !.content_type = TEXT_HTML],
                simple_response, GenericPage(response.code, custom_msg))

MSG_NO_CGI == <<"C","G","I"," ","i","s"," ","n","o","t"," ","e","n","a","b","l","e","d"," ",
    "i","n"," ","t","h","e"," ","s","e","r","v","e","r">>

MSG_NOT_CGI == <<"T","h","e"," ","u","r","i"," ","s","u","p","l","i","e","d"," ","w","i",
    "t","h"," ","t","h","e"," ","P","O","S","T"," ","r","e","s","o","u","r","c","e"," ","m",
    "u","s","t"," ","p","o","i","n","t"," ","t","o"," ","a"," ","C","G","I">>

(***************************************************************************)
(* The directory lister's buffer.                                          *)
(***************************************************************************)
\* write_buffer(buf_pos, buf_size, text): -1 when the text, with its NUL,
\* does not fit in buf_size bytes, else the number of bytes written.
write_buffer(buf_size, text) ==
  IF Len(text) >= buf_size THEN -1 ELSE Len(text)

\* basename(path)
basename(path) ==
  IF Segments(path) = <<>> THEN <<"/">> ELSE Segments(path)[Len(Segments(path))]

\* The names readdir returns for a directory node: its children, "." and
\* "..".
DirNames(node) ==
  {<<".">>, <<".", ".">>}
    \cup {p[Len(p)] : p \in {q \in DOMAIN FS : q # <<>> /\ Parent(q) = node}}

\* The name alphasort puts first.
Least(names) == CHOOSE n \in names : \A m \in names \ {n} : StrLess(n, m)

\* alphasort: the names in ascending byte order.
RECURSIVE SortNames(_)
SortNames(names) ==
  IF names = {} THEN <<>>
  ELSE <<Least(names)>> \o SortNames(names \ {Least(names)})

\* scandir(path, &namelist, 0, alphasort)
scandir(path) == SortNames(DirNames(Lookup(path).node))

ListTitleClose == TitleClose

ListBodyOpen == <<"<","b","o","d","y",">","\r","\n","<","h","1",">","D","i","r","e","c","t",
    "o","r","y"," ","L","i","s","t","i","n","g"," ","f","o","r"," ">>

ListHeadClose == <<"<","/","h","1",">","\r","\n","<","p",">","\r","\n">>

ListClosing == <<"<","/","p",">","\r","\n","<","/","b","o","d","y",">","\r","\n","<","/",
    "h","t","m","l",">","\r","\n">>

\* Lines 1221-1251: the text the lister formats before the entries.
ListPreamble(path) ==
  HtmlOpen \o TitleOpen \o basename(path) \o ListTitleClose
  \o ListBodyOpen \o basename(path) \o ListHeadClose

\* The line the lister writes for an entry.
EntryLine(name) == name \o CRLF

(***************************************************************************)
(* The state of one connection.                                            *)
(*   flag      the server's flags: dir, the served directory, and c_dir,   *)
(*             the CGI directory or NULL                                   *)
(*   tz        the offset of the server's local time from GMT              *)
(*   sent      all the bytes the client sends on the connection            *)
(*   wire      the bytes the client sends that the server has not read     *)
(*   clock     the seconds between accept() and the last return of         *)
(*             select() or read() on the client socket                     *)
(*   pc        where httpd() is                                            *)
(*   buf       httpd's request buffer                                      *)
(*   newreq, response   the structs of the same names                      *)
(*   loc       httpd's other locals, and the uri_path and server_real_path *)
(*             checkuri returned with                                      *)
(*   sock      the writes made to the client socket, in order              *)
(*   trace     the resolver, file server and process calls made, in order, *)
(*             and the reads and writes of a file or listing that failed   *)
(*             or fell short                                               *)
(*   child     the CGI child process and execute_cgi's locals: stdin the   *)
(*             bytes written to its standard input, stdout the bytes it    *)
(*             writes in all, relayed how many of them the parent has      *)
(*             read, c the byte buffer of the two relay loops, error the   *)
(*             call that failed, env the strings given to putenv()         *)
(*   list      send_directory_listing's namelist, loop index and buffer    *)
(***************************************************************************)
VARIABLES flag, tz, sent, wire, clock, pc, buf, newreq, response, loc, sock, trace, child,
          list

vars ==
  <<flag, tz, sent, wire, clock, pc, buf, newreq, response, loc, sock, trace, child, list>>

config == <<flag, tz, sent>>

SERVED_DIR == <<"/","w">>

CgiDirs == {NULL, <<"/","c">>, <<"/","c","/">>}

M_GET == <<"G","E","T">>

M_HEAD == <<"H","E","A","D">>

M_POST == <<"P","O","S","T">>

Methods == {M_GET, M_HEAD, M_POST, <<"P","U","T">>}

NoVersion == <<>>

V_20 == <<"H","T","T","P","/","2",".","0">>

V_101 == <<"H","T","T","P","/","1",".","0","1">>

Versions == {NoVersion, HTTP_VERSION_1, V_20, V_101, <<"h","t","t","p","/","1",".","0">>}

P_ROOT == <<"/">>

P_FILE == <<"/","a">>

P_MISSING == <<"/","z","z">>

P_SIBLING == <<"/",".",".","/","w","p","/","k">>

P_OUTSIDE == <<"/",".",".","/","x","/","f">>

P_CGI == <<"/","c","g","i","-","b","i","n","/","g">>

P_CGI_NOEXEC == <<"/","c","g","i","-","b","i","n","/","q">>

P_TIGHT == <<"/","t">>

ResolverPaths ==
  {P_ROOT, P_FILE, P_MISSING, P_SIBLING, P_OUTSIDE, P_CGI, P_CGI_NOEXEC, P_TIGHT,
   <<"/","n">>, <<"/","d">>, <<"/","e">>, <<"/","l">>, <<"/","o">>, <<"/","r">>,
   <<"/","a","/","b">>, <<"/",".",".">>, <<"/","s","/","f">>, <<"/","i","o">>, <<"/",".",
       ".","/","x","/","z","z">>, <<"/","u">>, <<"/","v">>,
   <<"/","s","/","w","/","f">>, <<"/","c","g","i","-","b","i","n","/","z","z">>, <<"/","c",
       "g","i","-","b","i","n","/","g","?","k">>, <<"/","a","?","x">>,
   <<"/","~","u","/","p">>, <<"/","~","z","z">>, <<"/","~","u","u","u","u","u","u","u","u",
       "u","u">>}

VersionPaths == {P_FILE, P_MISSING, P_OUTSIDE, P_CGI}

DatedPaths == {P_FILE, <<"/","d">>, <<"/","e">>, P_CGI}

H_BAD_DATE == IF_MODIFIED_SINCE_PREFIX \o <<" ","s","o","o","n">>

DateHeaders ==
  {IF_MODIFIED_SINCE_PREFIX \o <<" ">> \o DateText("rfc1123", c) : c \in {0, 4, 5, 6}}
    \cup {IF_MODIFIED_SINCE_PREFIX \o <<" ">> \o DateText("rfc850", 5),
          IF_MODIFIED_SINCE_PREFIX \o <<" ">> \o DateText("asctime", 5),
          IF_MODIFIED_SINCE_PREFIX, IF_MODIFIED_SINCE_PREFIX \o <<" ">>, H_BAD_DATE}

LengthHeaders ==
  {CONTENT_LENGTH_PREFIX \o v : v \in {<<" ","0">>, <<" ","3">>, <<" ","1","0">>, <<" ","-",
      "1">>, <<" ","x">>, <<" ","a","b","c">>, <<"3">>}}

Body == <<"a","b","c","d","e","f","g","h","i","j","k","l">>

\* A body that reads like a header line.
HeaderLikeBody == H_BAD_DATE

Bodies == {Body, <<"a","b">>, HeaderLikeBody}

RequestLine(method, path, version) ==
  method \o <<" ">> \o path \o (IF version = NoVersion THEN <<>> ELSE <<" ">> \o version)

Message(line, headers, body) ==
  line \o CRLF \o Concat([i \in 1..Len(headers) |-> headers[i] \o CRLF]) \o CRLF \o body

\* A request line longer than the request buffer, without its end.
LongRequest == M_GET \o <<" ", "/">> \o Rep("x", BUF_SIZE)

\* The requests a client sends.
Messages ==
  {Message(RequestLine(m, p, v), <<>>, <<>>) :
     m \in Methods, p \in ResolverPaths, v \in {NoVersion, HTTP_VERSION_1}}
  \cup {Message(RequestLine(m, p, v), h, <<>>) :
     m \in Methods, p \in VersionPaths, v \in Versions, h \in {<<>>, <<H_BAD_DATE>>}}
  \cup {Message(RequestLine(m, p, v), <<h>>, <<>>) :
     m \in {M_GET, M_HEAD}, p \in DatedPaths, v \in {NoVersion, HTTP_VERSION_1},
     h \in DateHeaders}
  \cup {Message(RequestLine(M_POST, p, HTTP_VERSION_1), h, b) :
     p \in {P_CGI, P_CGI_NOEXEC, P_FILE}, h \in {<<>>} \cup {<<l>> : l \in LengthHeaders},
     b \in Bodies}
  \cup {<<>>, LongRequest, CRLF \o CRLF, <<" ">> \o CRLF \o CRLF, M_GET \o CRLF \o CRLF, M_GET \o <<" ">> \o P_ROOT \o CRLF,
        Message(M_GET \o <<" ">> \o P_ROOT \o <<" ">> \o HTTP_VERSION_1 \o <<" ", "x">>,
                <<>>, <<>>)}

\* What a CGI program writes to its standard output.
CgiOutputs == {<<>>, <<"o","u","t">>}

no_child ==
  [forked |-> FALSE, execed |-> FALSE, waited |-> FALSE, stdin |-> <<>>, stdout |-> <<>>,
   relayed |-> 0, c |-> "\\uninit", error |-> "none", env |-> <<>>]

no_list == [namelist |-> <<>>, i |-> 0, buf |-> <<>>]

init_loc ==
  [token |-> <<>>, header_parsing_failed |-> FALSE, simple_request |-> FALSE,
   cgi_request |-> FALSE, http_status |-> 0, realpath_str |-> Uninit,
   serve_file |-> FALSE, failure_status |-> 0, uri_path |-> Uninit,
   server_real_path |-> Uninit]

Init ==
  /\ flag \in {[dir |-> SERVED_DIR, c_dir |-> c] : c \in CgiDirs}
  /\ tz \in TzOffsets
  /\ sent \in Messages
  /\ wire = sent
  /\ clock = 0
  /\ pc = "read"
  /\ buf = <<>>
  /\ newreq = init_request
  /\ response = init_response(0)
  /\ loc = init_loc
  /\ sock = <<>>
  /\ trace = <<>>
  /\ child = no_child
  /\ list = no_list

(***************************************************************************)
(* httpd(), lines 165-182: read the request.  Each turn of the loop waits  *)
(* in wait_for_data() for the socket to become readable and then reads     *)
(* what has arrived, up to the free space of buf; the loop ends when buf   *)
(* holds the blank line, when read() returns 0 (the client has closed, or  *)
(* buf is full) or when the wait times out.  The client sends its bytes in *)
(* pieces: all at once, up to the blank line, or the request line first;   *)
(* a piece arrives at once or just before the timeout of the wait.  A      *)
(* request without the blank line gets the 400 page as a full response.    *)
(***************************************************************************)
CLIENT_TIMEOUT_SEC == 20

Terminator == CRLF \o CRLF

\* The number of bytes up to the end of the first blank line of w.
FirstEnd(w) ==
  3 + CHOOSE i \in 1..Len(w) :
        /\ SubSeq(w, i, i + 3) = Terminator
        /\ \A j \in 1..(i - 1) : SubSeq(w, j, j + 3) # Terminator

\* The seconds the client lets pass before a piece.
Delays == {0, CLIENT_TIMEOUT_SEC - 1}

\* The lengths of the piece the client sends next, held being what the
\* server has read.
Pieces(held, w) ==
  {Len(w)}
    \cup (IF StrStr(w, Terminator) THEN {FirstEnd(w)} ELSE {})
    \cup (IF held = <<>> /\ FirstIn(w, {LF}) < Len(w) THEN {FirstIn(w, {LF})} ELSE {})

\* A read() that takes whatever the client sent.
ReadLengthsUnbounded(held, w) == Pieces(held, w)

\* What read() returns at line 168.
ReadLengths(held, w) == {Min(n, BUF_SIZE - 1 - Len(held)) : n \in Pieces(held, w)}

\* Lines 179-181 when the client is still there.
Unterminated == send_generic_page(init_response(RESPONSE_STATUS_BAD_REQUEST), FALSE, NULL)

Receive ==
  /\ pc \in {"read", "reading"}
  /\ IF pc = "reading"
     THEN \* the client has gone: read() fails, or returns 0 and the page
          \* cannot be written
          /\ pc' = "done"
          /\ UNCHANGED <<buf, wire, clock, response, sock, loc>>
     ELSE \E n \in ReadLengths(buf, wire), d \in Delays :
            /\ buf' = buf \o Take(wire, n)
            /\ wire' = Drop(wire, n)
            /\ clock' = clock + d
            /\ IF StrStr(buf', Terminator)
               THEN /\ pc' = "parse"
                    /\ UNCHANGED <<response, sock, loc>>
               ELSE IF n > 0
               THEN /\ pc' = "read"
                    /\ UNCHANGED <<response, sock, loc>>
               ELSE /\ response' = Unterminated.response
                    /\ sock' = sock \o Unterminated.writes
                    /\ loc' = [loc EXCEPT !.failure_status = Unterminated.ret]
                    /\ pc' = "done"
  /\ UNCHANGED <<config, newreq, trace, child, list>>

(***************************************************************************)
(* wait_for_data() (net.c), called at line 167, when nothing arrives for   *)
(* CLIENT_TIMEOUT_SEC seconds.  coderesp() writes the 522 status line and  *)
(* the headers and the process exits; when the status line cannot be       *)
(* written, because the client has gone, coderesp() returns at line 594    *)
(* and httpd goes on to the read() of line 168.                            *)
(***************************************************************************)
wait_for_data ==
  /\ pc = "read"
  /\ clock' = clock + CLIENT_TIMEOUT_SEC
  /\ trace' = Append(trace, "timeout")
  /\ response' = init_response(RESPONSE_STATUS_CONNECTION_TIMED_OUT)
  /\ \/ /\ sock' = sock \o coderesp(response', TRUE)
        /\ pc' = "exited"
        /\ UNCHANGED wire
     \/ /\ wire' = <<>>
        /\ pc' = "reading"
        /\ UNCHANGED sock
  /\ UNCHANGED <<config, buf, newreq, loc, child, list>>

(***************************************************************************)
(* httpd(), lines 183-251: split the buffer into lines, read the headers,  *)
(* split the request line into tokens.  With no line at all request_line   *)
(* is NULL and line 193 copies from it: the process faults, or the copy    *)
(* passes and no token is found.                                           *)
(***************************************************************************)
ParseRequest ==
  /\ pc = "parse"
  /\ \E lines \in {Tokens(buf, {CR, LF})} :
       IF lines = <<>>
       THEN \/ /\ pc' = "crashed"
               /\ UNCHANGED <<newreq, loc>>
            \/ /\ pc' = "dispatch"
               /\ UNCHANGED <<newreq, loc>>
       ELSE \E h \in {ParseHeaders(newreq, Tail(lines), tz)} :
              /\ newreq' = h.request
              /\ loc' = [loc EXCEPT !.header_parsing_failed = h.failed,
                                    !.token = Tokens(Head(lines), {" "})]
              /\ pc' = "dispatch"
  /\ UNCHANGED <<config, clock, wire, buf, response, sock, trace, child, list>>

\* A version check that stops at the protocol name.
VersionNameOnly(token) == StrNCaseEq(token, HTTP_VERSION_1, 5)

\* Line 267: the version token is accepted.
VersionSupported(token) == StrNCaseEq(token, HTTP_VERSION_1, 8)

\* httpd's locals after checkuri returned u.
Returned(loc_, u) ==
  [loc_ EXCEPT !.http_status = u.status, !.cgi_request = u.cgi,
               !.realpath_str = u.realpath_str, !.uri_path = u.uri_path,
               !.server_real_path = u.server_real_path]

\* Lines 276-279 and 284-287 with u what checkuri gave.
ReadChecked(loc_, u) ==
  [request |-> IF u.status = RESPONSE_STATUS_OK
               THEN [u.request EXCEPT !.path = u.realpath_str]
               ELSE u.request,
   response |-> init_response(u.status),
   loc |-> Returned(loc_, u),
   called |-> TRUE, undefined |-> FALSE]

\* Lines 273-279 and 281-287: GET and HEAD.
DispatchRead(request, method, path, flag_, loc_) ==
  ReadChecked(loc_, checkuri([request EXCEPT !.method = method, !.path = path], flag_))

\* Lines 295-300 with u what checkuri gave.  When checkuri fails, line 299
\* copies realpath_str, which nothing has written.
PostChecked(loc_, u) ==
  IF ~u.cgi /\ u.status = RESPONSE_STATUS_OK
  THEN [request |-> u.request,
        response |-> init_response(RESPONSE_STATUS_BAD_REQUEST),
        loc |-> Returned(loc_, u), called |-> TRUE, undefined |-> FALSE]
  ELSE [request |-> [u.request EXCEPT !.path = u.realpath_str],
        response |-> init_response(u.status),
        loc |-> Returned(loc_, u), called |-> TRUE,
        undefined |-> u.realpath_str = Uninit]

\* Lines 289-301: POST.
DispatchPost(request, path, flag_, loc_) ==
  IF flag_.c_dir = NULL
  THEN [request |-> [request EXCEPT !.method = REQUEST_METHOD_POST],
        response |-> init_response(RESPONSE_STATUS_BAD_REQUEST),
        loc |-> loc_, called |-> FALSE, undefined |-> FALSE]
  ELSE PostChecked(loc_, checkuri([request EXCEPT !.method = REQUEST_METHOD_POST,
                                                  !.path = path], flag_))

\* A request rejected before its path is looked at.
Reject(request, loc_, code) ==
  [request |-> request, response |-> init_response(code),
   loc |-> loc_, called |-> FALSE, undefined |-> FALSE]

\* Lines 246-251: token_count.
TokenCount(token) == IF token = <<>> THEN 1 ELSE Len(token)

\* A dispatch that does not look at header_parsing_failed.
DecideUnparsed(request, flag_, loc_, token, token_count) ==
  IF token_count # 3 /\ ~loc_.simple_request
  THEN Reject(request, loc_, RESPONSE_STATUS_BAD_REQUEST)
  ELSE IF ~VersionSupported(token[token_count]) /\ ~loc_.simple_request
       THEN Reject(request, loc_, RESPONSE_STATUS_VERSION_NOT_SUPPORTED)
  ELSE IF StrCaseEq(token[1], M_GET)
       THEN DispatchRead(request, REQUEST_METHOD_GET, token[2], flag_, loc_)
  ELSE IF StrCaseEq(token[1], M_HEAD) /\ ~loc_.simple_request
       THEN DispatchRead(request, REQUEST_METHOD_HEAD, token[2], flag_, loc_)
  ELSE IF StrCaseEq(token[1], M_POST) /\ ~loc_.simple_request
       THEN DispatchPost(request, token[2], flag_, loc_)
  ELSE Reject(request, loc_, RESPONSE_STATUS_NOT_IMPLEMENTED)

\* Lines 262-304: request and loc_ are as lines 253-260 left them.
Decide(request, flag_, loc_, token, token_count) ==
  IF loc_.header_parsing_failed \/ (token_count # 3 /\ ~loc_.simple_request)
  THEN Reject(request, loc_, RESPONSE_STATUS_BAD_REQUEST)
  ELSE IF ~VersionSupported(token[token_count]) /\ ~loc_.simple_request
       THEN Reject(request, loc_, RESPONSE_STATUS_VERSION_NOT_SUPPORTED)
  ELSE IF StrCaseEq(token[1], M_GET)
       THEN DispatchRead(request, REQUEST_METHOD_GET, token[2], flag_, loc_)
  ELSE IF StrCaseEq(token[1], M_HEAD) /\ ~loc_.simple_request
       THEN DispatchRead(request, REQUEST_METHOD_HEAD, token[2], flag_, loc_)
  ELSE IF StrCaseEq(token[1], M_POST) /\ ~loc_.simple_request
       THEN DispatchPost(request, token[2], flag_, loc_)
  ELSE Reject(request, loc_, RESPONSE_STATUS_NOT_IMPLEMENTED)

\* Lines 253-304: the version, the method and the path.
DispatchRequest(request, flag_, loc_) ==
  Decide([request EXCEPT
            !.version_major = IF TokenCount(loc_.token) = 2 THEN 0 ELSE 1,
            !.version_minor = IF TokenCount(loc_.token) = 2 THEN 9 ELSE 0],
         flag_, [loc_ EXCEPT !.simple_request = TokenCount(loc_.token) = 2],
         loc_.token, TokenCount(loc_.token))

\* The copy of line 299 from an unwritten buffer either leaves some bytes
\* in newreq.path or faults.
Dispatch ==
  /\ pc = "dispatch"
  /\ \E d \in {DispatchRequest(newreq, flag, loc)} :
       /\ newreq' = d.request
       /\ response' = d.response
       /\ loc' = d.loc
       /\ trace' = IF d.called THEN Append(trace, "checkuri") ELSE trace
       /\ \/ pc' = "respond"
          \/ d.undefined /\ pc' = "crashed"
  /\ UNCHANGED <<config, clock, wire, buf, sock, child, list>>

\* mime_type(path, dst, dst_len): what libmagic says of the node.
mime_type(sb) ==
  IF S_ISDIR(sb) THEN <<"i","n","o","d","e","/","d","i","r","e","c","t","o","r","y">>
  ELSE <<"t","e","x","t","/","p","l","a","i","n">>

\* A set_entity_body_headers that leaves the response as it is.
EntityUnset(response_, st) == response_

\* Lines 384-391 with st what stat gave.
EntityOf(response_, st) ==
  IF ~st.ok THEN response_
  ELSE [response_ EXCEPT !.content_type = mime_type(st.sb),
                         !.content_length = st_size(st.sb),
                         !.last_modified = st.sb.mtime]

\* set_entity_body_headers(response, path): the response it leaves.
set_entity_body_headers(response_, path) == EntityOf(response_, stat(path))

\* The writes of a read/write loop copying data in chunks of n bytes.
RECURSIVE BodyWrites(_, _)
BodyWrites(data, n) ==
  IF data = <<>> THEN <<>>
  ELSE <<[kind |-> "body", data |-> Take(data, n)]>> \o BodyWrites(Drop(data, n), n)

\* Lines 307-308.
ServeFile(request, response_, cgi_request) ==
  /\ request.method = REQUEST_METHOD_GET
  /\ response_.code = RESPONSE_STATUS_OK
  /\ ~cgi_request

\* Lines 311-315: the response with the entity headers of a static target.
EntityHeaders(request, response_, loc_) ==
  IF /\ response_.code = RESPONSE_STATUS_OK
     /\ request.method \in {REQUEST_METHOD_GET, REQUEST_METHOD_HEAD}
     /\ ~loc_.cgi_request
  THEN set_entity_body_headers(response_, loc_.realpath_str)
  ELSE response_

\* Lines 334-343: the message added to the error page.
CustomMessage(request, flag_, cgi_request) ==
  IF request.method = REQUEST_METHOD_POST /\ flag_.c_dir = NULL THEN MSG_NO_CGI
  ELSE IF request.method = REQUEST_METHOD_POST /\ ~cgi_request THEN MSG_NOT_CGI
  ELSE NULL

(***************************************************************************)
(* httpd(), lines 306-344: the entity headers, then the response: the      *)
(* headers for a HEAD or CGI request, or the error page.                   *)
(***************************************************************************)
Respond ==
  /\ pc = "respond"
  /\ \E serve_file \in {ServeFile(newreq, response, loc.cgi_request)},
        r \in {EntityHeaders(newreq, response, loc)} :
       IF r.code = RESPONSE_STATUS_OK
       THEN /\ response' = r
            /\ sock' = IF ~serve_file
                       THEN sock \o coderesp(r, ~loc.simple_request)
                       ELSE sock
            /\ loc' = [loc EXCEPT !.serve_file = serve_file]
            /\ pc' = IF loc.cgi_request THEN "cgi"
                     ELSE IF serve_file THEN "fileserver"
                     ELSE "log"
       ELSE \E page \in {send_generic_page(r, loc.simple_request,
                           CustomMessage(newreq, flag, loc.cgi_request))} :
              /\ response' = page.response
              /\ sock' = sock \o page.writes
              /\ loc' = [loc EXCEPT !.serve_file = serve_file,
                                    !.failure_status = page.ret]
              /\ pc' = "log"
  /\ UNCHANGED <<config, clock, wire, buf, newreq, trace, child, list>>

(***************************************************************************)
(* execute_cgi(), lines 1323-1397: the environment, the pipes and the      *)
(* fork.  A POST without a positive Content-Length returns before the      *)
(* pipes are made; a failing pipe() or fork() returns with status 500.     *)
(* The child runs the program, which writes its output and exits, or       *)
(* execl() fails and the child exits at line 1394 without output.          *)
(***************************************************************************)
\* The values an uninitialised char can hold.
AnyByte == {"a", "?"}

\* What the buffer query_env may hold: line 1342 tests the address of the
\* array request->querystring, which is never null, so line 1343 never
\* writes the buffer.
AnyString == {<<>>, <<"?">>}

\* The %d of sprintf.
FormatInt(n) == IF n < 0 THEN <<"-">> \o itoa(0 - n) ELSE itoa(n)

\* Lines 1340-1364 and 1385-1392: the strings the child hands to putenv(),
\* in order, query_env being what that buffer holds.
Environment(request, query_env) ==
  (IF request.method \in {REQUEST_METHOD_GET, REQUEST_METHOD_HEAD}
   THEN <<query_env>> ELSE <<>>)
  \o <<(IF request.method = REQUEST_METHOD_GET THEN <<"R","E","Q","U","E","S","T","_","M",
      "E","T","H","O","D"," ","=","G","E","T">>
        ELSE IF request.method = REQUEST_METHOD_HEAD THEN <<"R","E","Q","U","E","S","T","_",
            "M","E","T","H","O","D"," ","=","H","E","A","D">>
        ELSE <<"R","E","Q","U","E","S","T","_","M","E","T","H","O","D"," ","=","P","O","S",
            "T">>),
       <<"C","O","N","T","E","N","T","_","L","E","N","G","T","H"," ",
           "=">> \o FormatInt(request.content_length),
       <<"C","O","N","T","E","N","T","_","T","Y","P","E"," ","=">> \o request.content_type>>

ExecuteCgi ==
  /\ pc = "cgi"
  /\ trace' = Append(trace, "execute_cgi")
  /\ IF newreq.method = REQUEST_METHOD_POST /\ newreq.content_length <= 0
     THEN /\ loc' = [loc EXCEPT !.http_status = RESPONSE_STATUS_BAD_REQUEST,
                                !.failure_status = -1]
          /\ pc' = "log"
          /\ UNCHANGED child
     ELSE \/ \E error \in {"pipe", "fork"} :
               /\ child' = [child EXCEPT !.error = error]
               /\ loc' = [loc EXCEPT !.http_status = RESPONSE_STATUS_INTERNAL_SERVER_ERROR,
                                     !.failure_status = -1]
               /\ pc' = "log"
          \/ \E out \in CgiOutputs, query_env \in AnyString :
               /\ child' = [child EXCEPT !.forked = TRUE, !.execed = TRUE, !.stdout = out,
                                         !.env = Environment(newreq, query_env)]
               /\ pc' = "cgi_input"
               /\ UNCHANGED loc
          \/ \E query_env \in AnyString :
               /\ child' = [child EXCEPT !.forked = TRUE, !.error = "exec",
                                         !.env = Environment(newreq, query_env)]
               /\ pc' = "cgi_input"
               /\ UNCHANGED loc
  /\ UNCHANGED <<config, clock, wire, buf, newreq, response, sock, list>>

(***************************************************************************)
(* execute_cgi(), lines 1399-1405: one turn of the loop that copies the    *)
(* request body to the child.  recv() takes the next byte of the socket;   *)
(* once the client has closed it stores nothing and the byte written is    *)
(* the one c holds.  A child that has exited without reading makes the     *)
(* write raise SIGPIPE, which ends the process.                            *)
(***************************************************************************)
\* The values of c after the recv() of line 1401.
Received(w, c) ==
  IF w # <<>> THEN {Head(w)}
  ELSE IF c = "\\uninit" THEN AnyByte
  ELSE {c}

CgiInput ==
  /\ pc = "cgi_input"
  /\ IF newreq.method = REQUEST_METHOD_POST /\ Len(child.stdin) < newreq.content_length
     THEN \E c \in Received(wire, child.c) :
            /\ wire' = IF wire # <<>> THEN Tail(wire) ELSE wire
            /\ \/ /\ child' = [child EXCEPT !.c = c, !.stdin = Append(@, c)]
                  /\ pc' = "cgi_input"
               \/ /\ ~child.execed
                  /\ child' = [child EXCEPT !.c = c]
                  /\ pc' = "killed"
     ELSE /\ pc' = "cgi_output"
          /\ UNCHANGED <<wire, child>>
  /\ UNCHANGED <<config, clock, buf, newreq, response, loc, sock, trace, list>>

(***************************************************************************)
(* execute_cgi(), lines 1407-1408: one turn of the loop that copies the    *)
(* child's output to the client, a byte at a time, until end of file.      *)
(***************************************************************************)
\* The send() of line 1408.
CgiWrite(c) == [kind |-> "cgi", data |-> <<c>>]

CgiOutput ==
  /\ pc = "cgi_output"
  /\ IF child.relayed < Len(child.stdout)
     THEN /\ sock' = Append(sock, CgiWrite(child.stdout[child.relayed + 1]))
          /\ child' = [child EXCEPT !.relayed = @ + 1,
                                    !.c = child.stdout[child.relayed + 1]]
          /\ pc' = "cgi_output"
     ELSE /\ pc' = "cgi_wait"
          /\ UNCHANGED <<sock, child>>
  /\ UNCHANGED <<config, clock, wire, buf, newreq, response, loc, trace, list>>

(***************************************************************************)
(* execute_cgi(), lines 1410-1419: the pipes are closed, the child is      *)
(* waited for and the exchange is reported as done.                        *)
(***************************************************************************)
\* A parent that returns without waitpid().
Unreaped(child_) == child_

\* Line 1414: waitpid(pid, &status, 0).
Reaped(child_) == [child_ EXCEPT !.waited = TRUE]

CgiWait ==
  /\ pc = "cgi_wait"
  /\ child' = Reaped(child)
  /\ loc' = [loc EXCEPT !.http_status = RESPONSE_STATUS_OK, !.failure_status = 0]
  /\ pc' = "log"
  /\ UNCHANGED <<config, clock, wire, buf, newreq, response, sock, trace, list>>

(***************************************************************************)
(* fileserver(), lines 624-686: the conditional GET, the headers, then the *)
(* file's bytes, or the start of the directory listing (lines 1213-1251).  *)
(***************************************************************************)
\* Line 640: the file is not newer than the date of If-Modified-Since.
NotModified(request, sb, tz_) ==
  /\ request.if_modified_since_date # -1
  /\ request.if_modified_since_date >= local_to_gmtime(sb.mtime, tz_)

\* What a write() of the socket may do: take all the bytes, take all but
\* the last, or fail.
WriteOutcomes == {"ok", "short write", "write failed"}

\* The socket after a write() of data with the outcome io.
Written(sock_, data, io) ==
  IF io = "ok" THEN Append(sock_, [kind |-> "body", data |-> data])
  ELSE IF io = "short write"
       THEN Append(sock_, [kind |-> "body", data |-> Take(data, Len(data) - 1)])
  ELSE sock_

\* The trace after a read() or write() with the outcome io.
Noted(trace_, io) == IF io = "ok" THEN trace_ ELSE Append(trace_, io)

\* What the copy loop of lines 661-667 may meet on its first turn.
FileOutcomes(data) ==
  IF data = <<>> THEN {"ok", "read failed"} ELSE WriteOutcomes \cup {"read failed"}

\* A copy loop that answers a failed read() or write() with an error page.
StreamFileThenPage(data, io) ==
  IF io = "ok" THEN BodyWrites(data, BUF_SIZE)
  ELSE (IF io = "read failed" THEN <<>> ELSE Written(<<>>, Take(data, BUF_SIZE), io))
       \o coderesp(init_response(RESPONSE_STATUS_INTERNAL_SERVER_ERROR), TRUE)

\* Lines 661-673: the writes of the copy loop when its first read() or
\* write() has the outcome io.
StreamFile(data, io) ==
  IF io = "ok" THEN BodyWrites(data, BUF_SIZE)
  ELSE IF io = "read failed" THEN <<>>
  ELSE Written(<<>>, Take(data, BUF_SIZE), io)

FileServer ==
  /\ pc = "fileserver"
  /\ \E st \in {stat(newreq.path)} :
       IF ~st.ok
       THEN \E failed \in {send_generic_page(
                             init_response(RESPONSE_STATUS_INTERNAL_SERVER_ERROR),
                             loc.simple_request, NULL)} :
              /\ response' = failed.response
              /\ sock' = sock \o failed.writes
              /\ loc' = [loc EXCEPT !.failure_status = failed.ret]
              /\ pc' = "log"
              /\ trace' = Append(trace, "fileserver")
              /\ UNCHANGED list
       ELSE IF NotModified(newreq, st.sb, tz)
            THEN /\ response' = [response EXCEPT !.content_length = 0,
                                                 !.content_type = <<>>]
                 /\ sock' = sock \o coderesp(response', ~loc.simple_request)
                 /\ loc' = [loc EXCEPT !.failure_status = 0]
                 /\ pc' = "log"
                 /\ trace' = Append(trace, "fileserver")
                 /\ UNCHANGED list
       ELSE IF ~S_ISDIR(st.sb)
            THEN \E io \in FileOutcomes(st.sb.data) :
                   /\ sock' = sock \o coderesp(response, ~loc.simple_request)
                                   \o StreamFile(st.sb.data, io)
                   /\ trace' = Noted(Append(trace, "fileserver"), io)
                   /\ loc' = [loc EXCEPT !.failure_status = IF io = "ok" THEN 0 ELSE -1]
                   /\ pc' = "log"
                   /\ UNCHANGED <<response, list>>
       ELSE \E preamble \in {ListPreamble(newreq.path)} :
              /\ sock' = sock \o coderesp(response, ~loc.simple_request)
              /\ IF write_buffer(BUF_SIZE, preamble) < 0
                 THEN /\ loc' = [loc EXCEPT !.failure_status = -1]
                      /\ pc' = "log"
                      /\ UNCHANGED list
                 ELSE /\ list' = [namelist |-> scandir(newreq.path), i |-> 1,
                                  buf |-> preamble]
                      /\ pc' = "list"
                      /\ UNCHANGED loc
              /\ trace' = Append(trace, "fileserver")
              /\ UNCHANGED response
  /\ UNCHANGED <<config, clock, wire, buf, newreq, child>>

(***************************************************************************)
(* send_directory_listing(), lines 1253-1277: one turn of the loop over    *)
(* the entries.  buf_size_remain is BUF_SIZE less what the buffer holds.   *)
(***************************************************************************)
\* Line 1256: the buffer is written out before the entry is formatted.
FlushBefore(remain, name) == remain < Len(name) + 2

\* Line 1266: the entry is listed.
Listed(name) == Len(name) >= 1 /\ name[1] # "."

\* The outcomes of the write() of lines 1257 and 1283, made when flush
\* says so.
FlushOutcomes(flush) == IF flush THEN WriteOutcomes ELSE {"ok"}

\* The socket after the buffer held is written out, when flush says so.
Flushed(sock_, flush, held, io) ==
  IF flush THEN Written(sock_, held, io) ELSE sock_

ListEntry ==
  /\ pc = "list"
  /\ list.i <= Len(list.namelist)
  /\ \E name \in {list.namelist[list.i]} :
       \E flush \in {FlushBefore(BUF_SIZE - Len(list.buf), name)} :
         \E held \in {IF flush THEN <<>> ELSE list.buf}, io \in FlushOutcomes(flush) :
           /\ sock' = Flushed(sock, flush, list.buf, io)
           /\ trace' = Noted(trace, io)
           /\ IF io = "write failed"
              THEN /\ loc' = [loc EXCEPT !.failure_status = -1]
                   /\ pc' = "log"
                   /\ UNCHANGED list
              ELSE IF Listed(name) /\ write_buffer(BUF_SIZE - Len(held), EntryLine(name)) < 0
              THEN /\ loc' = [loc EXCEPT !.failure_status = -1]
                   /\ list' = [list EXCEPT !.buf = held]
                   /\ pc' = "log"
              ELSE /\ list' = [list EXCEPT !.i = @ + 1,
                                           !.buf = IF Listed(name)
                                                   THEN held \o EntryLine(name)
                                                   ELSE held]
                   /\ UNCHANGED <<loc, pc>>
  /\ UNCHANGED <<config, clock, wire, buf, newreq, response, child>>

(***************************************************************************)
(* send_directory_listing(), lines 1280-1306: the closing tags and the     *)
(* last write.                                                             *)
(***************************************************************************)
ListClose ==
  /\ pc = "list"
  /\ list.i > Len(list.namelist)
  /\ \E flush \in {BUF_SIZE - Len(list.buf) < 100} :
       \E held \in {IF flush THEN <<>> ELSE list.buf},
          io \in FlushOutcomes(flush), last \in WriteOutcomes :
         IF io = "write failed"
         THEN /\ trace' = Noted(trace, io)
              /\ loc' = [loc EXCEPT !.failure_status = -1]
              /\ UNCHANGED <<sock, list>>
         ELSE IF write_buffer(BUF_SIZE - Len(held), ListClosing) < 0
         THEN /\ sock' = Flushed(sock, flush, list.buf, io)
              /\ trace' = Noted(trace, io)
              /\ list' = [list EXCEPT !.buf = held]
              /\ loc' = [loc EXCEPT !.failure_status = -1]
         ELSE /\ sock' = Written(Flushed(sock, flush, list.buf, io),
                                 held \o ListClosing, last)
              /\ trace' = Noted(Noted(trace, io), last)
              /\ list' = [list EXCEPT !.buf = held \o ListClosing]
              /\ loc' = [loc EXCEPT !.failure_status =
                                      IF last = "write failed" THEN -1 ELSE 0]
  /\ pc' = "log"
  /\ UNCHANGED <<config, clock, wire, buf, newreq, response, child>>

(***************************************************************************)
(* httpd(), lines 346-358: the log entry and the return.                   *)
(***************************************************************************)
Finish ==
  /\ pc = "log"
  /\ trace' = Append(trace, "log")
  /\ pc' = "done"
  /\ UNCHANGED <<config, clock, wire, buf, newreq, response, loc, sock, child, list>>

Next ==
  \/ Receive
  \/ wait_for_data
  \/ ParseRequest
  \/ Dispatch
  \/ Respond
  \/ ExecuteCgi
  \/ CgiInput
  \/ CgiOutput
  \/ CgiWait
  \/ FileServer
  \/ ListEntry
  \/ ListClose
  \/ Finish

Spec == Init /\ [][Next]_vars


(***************************************************************************)
(* The parent of execute_cgi(), lines 1395-1419, with its two pipes, and   *)
(* the program the child executes.  A pipe holds PipeCapacity bytes:       *)
(* write() on a full pipe and read() on an empty pipe whose write end is   *)
(* open both wait.  The program reads the whole body and writes its whole  *)
(* output, one byte a step, in the order `program` gives, and exits.       *)
(* child.cgi_input and child.cgi_output are the bytes in the pipes,        *)
(* child.i the parent's loop counter of line 1400.                         *)
(***************************************************************************)
MaxBody == 3

MaxOutput == 3

PipeCapacity == 2

\* The orders in which a program reads n bytes and writes m bytes.
CgiPrograms(n, m) ==
  {p \in [1..(n + m) -> {"read", "write"}] :
     Cardinality({k \in 1..(n + m) : p[k] = "read"}) = n}

\* The child after fork() and execl(), lines 1381-1393.
relay_child(program) ==
  [forked |-> TRUE, execed |-> TRUE, waited |-> FALSE, stdin |-> <<>>, stdout |-> <<>>,
   relayed |-> 0, c |-> "\\uninit", error |-> "none", env |-> <<>>,
   cgi_input |-> <<>>, cgi_output |-> <<>>, i |-> 0, program |-> program,
   exited |-> FALSE]

RelayInit ==
  /\ flag = [dir |-> SERVED_DIR, c_dir |-> <<"/","c","/">>]
  /\ tz = 0
  /\ \E n \in 1..MaxBody, m \in 0..MaxOutput :
       /\ sent = Rep("b", n)
       /\ newreq = [init_request EXCEPT !.method = REQUEST_METHOD_POST,
                                        !.content_length = n]
       /\ child \in {relay_child(p) : p \in CgiPrograms(n, m)}
  /\ wire = sent
  /\ clock = 0
  /\ pc = "cgi_input"
  /\ buf = <<>>
  /\ response = init_response(RESPONSE_STATUS_OK)
  /\ loc = init_loc
  /\ sock = <<>>
  /\ trace = <<"execute_cgi">>
  /\ list = no_list

\* Lines 1399-1405: one turn of the loop that copies the body to the child;
\* the write() of line 1402 waits while the pipe is full.
RelayInput ==
  /\ pc = "cgi_input"
  /\ IF child.i < newreq.content_length
     THEN /\ Len(child.cgi_input) < PipeCapacity
          /\ \E c \in Received(wire, child.c) :
               /\ wire' = IF wire # <<>> THEN Tail(wire) ELSE wire
               /\ child' = [child EXCEPT !.c = c, !.i = @ + 1,
                                         !.cgi_input = Append(@, c)]
          /\ pc' = "cgi_input"
     ELSE /\ pc' = "cgi_output"
          /\ UNCHANGED <<wire, child>>
  /\ UNCHANGED <<config, clock, buf, newreq, response, loc, sock, trace, list>>

\* Lines 1407-1408: one turn of the loop that copies the child's output to
\* the client; the read() waits while the pipe is empty and the child has
\* its end open, and returns 0 once the child has exited.
RelayOutput ==
  /\ pc = "cgi_output"
  /\ IF child.cgi_output # <<>>
     THEN /\ sock' = Append(sock, CgiWrite(Head(child.cgi_output)))
          /\ child' = [child EXCEPT !.relayed = @ + 1, !.c = Head(child.cgi_output),
                                    !.cgi_output = Tail(@)]
          /\ pc' = "cgi_output"
     ELSE /\ child.exited
          /\ pc' = "cgi_wait"
          /\ UNCHANGED <<sock, child>>
  /\ UNCHANGED <<config, clock, wire, buf, newreq, response, loc, trace, list>>

\* Lines 1410-1419: waitpid() returns once the child has exited.
RelayWait ==
  /\ pc = "cgi_wait"
  /\ child.exited
  /\ child' = Reaped(child)
  /\ loc' = [loc EXCEPT !.http_status = RESPONSE_STATUS_OK, !.failure_status = 0]
  /\ pc' = "log"
  /\ UNCHANGED <<config, clock, wire, buf, newreq, response, sock, trace, list>>

\* The program reads a byte of its standard input; it waits while the pipe
\* is empty.
ChildRead ==
  /\ pc \in {"cgi_input", "cgi_output", "cgi_wait"}
  /\ child.program # <<>> /\ Head(child.program) = "read"
  /\ child.cgi_input # <<>>
  /\ child' = [child EXCEPT !.stdin = Append(@, Head(child.cgi_input)),
                            !.cgi_input = Tail(@), !.program = Tail(@)]
  /\ UNCHANGED <<config, clock, wire, pc, buf, newreq, response, loc, sock, trace, list>>

\* The program writes a byte to its standard output; it waits while the
\* pipe is full.
ChildWrite ==
  /\ pc \in {"cgi_input", "cgi_output", "cgi_wait"}
  /\ child.program # <<>> /\ Head(child.program) = "write"
  /\ Len(child.cgi_output) < PipeCapacity
  /\ child' = [child EXCEPT !.stdout = Append(@, "o"),
                            !.cgi_output = Append(@, "o"), !.program = Tail(@)]
  /\ UNCHANGED <<config, clock, wire, pc, buf, newreq, response, loc, sock, trace, list>>

\* The program has no step left and exits, which closes its ends of the
\* pipes.
ChildExit ==
  /\ pc \in {"cgi_input", "cgi_output", "cgi_wait"}
  /\ child.program = <<>> /\ ~child.exited
  /\ child' = [child EXCEPT !.exited = TRUE]
  /\ UNCHANGED <<config, clock, wire, pc, buf, newreq, response, loc, sock, trace, list>>

RelayNext ==
  \/ RelayInput
  \/ RelayOutput
  \/ RelayWait
  \/ ChildRead
  \/ ChildWrite
  \/ ChildExit

\* The kernel runs a process that can run: neither the parent nor the
\* child waits for ever while its next step is possible.
RelaySpec ==
  /\ RelayInit
  /\ [][RelayNext]_vars
  /\ WF_vars(RelayInput \/ RelayOutput \/ RelayWait)
  /\ WF_vars(ChildRead \/ ChildWrite \/ ChildExit)

(***************************************************************************)
(* Properties.  They are stated over what the client sent (buf, loc.token) *)
(* and what it received (sock), with the file system as the judge of what  *)
(* a path names.                                                           *)
(***************************************************************************)
\* path is root or lies below it.
UnderRoot(path, root) == path = root \/ IsPrefix(root \o <<"/">>, path)

\* httpd is at line 306: the request line is split and the dispatch done.
Dispatched ==
  pc \in {"respond", "cgi", "cgi_input", "cgi_output", "cgi_wait", "killed", "fileserver",
         "list", "log", "done"}

\* httpd is back from the checkuri call of the dispatch.
Checked == pc = "respond" /\ trace # <<>> /\ trace[Len(trace)] = "checkuri"

\* The request line has three tokens, the method given and HTTP/1.0.
RequestIs(method) ==
  /\ Len(loc.token) = 3
  /\ StrCaseEq(loc.token[1], method)
  /\ StrCaseEq(loc.token[3], HTTP_VERSION_1)

\* The request path is resolved under the served directory.
DefaultForm(path) ==
  /\ ~IsPrefix(<<"/", "~">>, path)
  /\ flag.c_dir = NULL \/ (~IsPrefix(CGI_PREFIX, path) /\ "?" \notin Range(path))

\* path names an entry the server can read, at or below the served
\* directory, and is no CGI target.
StaticEntry(path) ==
  /\ ~IsPrefix(<<"/", "~">>, path)
  /\ ~IsPrefix(CGI_PREFIX, path)
  /\ "?" \notin Range(path)
  /\ access(SERVED_DIR \o path, {"R"}) = "OK"
  /\ UnderRoot(realpath(SERVED_DIR \o path), SERVED_DIR)

\* A read or write of the file or listing being sent has failed or fallen
\* short.
StreamBroken == Range(trace) \cap {"write failed", "short write", "read failed"} # {}

\* The entity bytes the client received, in order.
BodyBytes(s) == Concat([i \in 1..Len(s) |-> IF s[i].kind = "body" THEN s[i].data ELSE <<>>])

\* The client received the status line of code first.
StatusIs(code) == sock # <<>> /\ sock[1].kind = "status" /\ sock[1].code = code

\* The header block h has the field name with the value given.
HasField(h, name, value) ==
  \E i \in 1..Len(h.fields) : h.fields[i].name = name /\ h.fields[i].value = value

\* C1: whenever checkuri returns OK, the path it hands back is the root it
\* resolved against or begins with that root followed by "/".
C1_OkPathUnderRoot ==
  (Checked /\ loc.http_status = RESPONSE_STATUS_OK)
    => UnderRoot(loc.realpath_str, loc.server_real_path)

\* C2: a candidate path that resolves, through its ".." segments and
\* symlinks, to a place outside the root checkuri resolved against is
\* answered Forbidden.
C2_OutsideRootForbidden ==
  (/\ Checked
   /\ loc.uri_path # Uninit
   /\ realpath(loc.uri_path) # NULL
   /\ ~UnderRoot(realpath(loc.uri_path), loc.server_real_path))
    => loc.http_status = RESPONSE_STATUS_FORBIDDEN

\* C3: a three-token HTTP/1.0 POST whose path is no CGI target and names a
\* readable entry under the served directory is answered 400, with a CGI
\* directory configured or without.
C3_PostStaticBadRequest ==
  (/\ pc = "done"
   /\ RequestIs(M_POST)
   /\ ~loc.header_parsing_failed
   /\ StaticEntry(loc.token[2]))
    => StatusIs(RESPONSE_STATUS_BAD_REQUEST)

\* C4: a three-token request whose third token is not, whatever the case
\* of its letters, the whole of "HTTP/1.0" is answered 505.
C4_WholeVersionToken ==
  (/\ Dispatched
   /\ Len(loc.token) = 3
   /\ ~loc.header_parsing_failed
   /\ ~StrCaseEq(loc.token[3], HTTP_VERSION_1))
    => response.code = RESPONSE_STATUS_VERSION_NOT_SUPPORTED

\* C5 as stated: every three-token request with the version token
\* "HTTP/2.0" is answered 505.
C5_Http2Always505 ==
  (pc = "done" /\ Len(loc.token) = 3 /\ loc.token[3] = V_20)
    => StatusIs(RESPONSE_STATUS_VERSION_NOT_SUPPORTED)

\* C5: a three-token request with the version token "HTTP/2.0", none of
\* whose header lines fails to parse, is answered 505 whatever its method
\* and path, and neither the resolver, nor the file server, nor the CGI
\* executor is called for it.
C5_Http2Is505BeforeDispatch ==
  (/\ Dispatched
   /\ Len(loc.token) = 3
   /\ loc.token[3] = V_20
   /\ ~loc.header_parsing_failed)
    => /\ response.code = RESPONSE_STATUS_VERSION_NOT_SUPPORTED
       /\ Range(trace) \subseteq {"log"}
       /\ ~child.forked
       /\ pc \in {"respond", "log", "done"}
       /\ pc # "respond" => StatusIs(RESPONSE_STATUS_VERSION_NOT_SUPPORTED)

\* A POST of a CGI path with the version token "HTTP/2.0" was answered 505.
C5_Witness ==
  /\ pc = "done"
  /\ Len(loc.token) = 3
  /\ loc.token[3] = V_20
  /\ ~loc.header_parsing_failed
  /\ loc.token[1] = M_POST
  /\ loc.token[2] = P_CGI
  /\ flag.c_dir # NULL
  /\ StatusIs(RESPONSE_STATUS_VERSION_NOT_SUPPORTED)

\* C6: for a request whose request line has exactly two tokens, no status
\* line and no header block is written to the socket, whatever is sent.
C6_SimpleResponseHasNoHeaders ==
  Len(loc.token) = 2
    => \A i \in 1..Len(sock) : sock[i].kind \notin {"status", "headers"}

\* A two-token request was served a directory listing.
C6_Witness ==
  /\ pc = "done"
  /\ Len(loc.token) = 2
  /\ list.i > Len(list.namelist)
  /\ BodyBytes(sock) # <<>>

\* The file a GET of path is served from.
Target(path) == check_index_html(realpath(SERVED_DIR \o path))

\* path names a regular file the server serves.
StaticFile(path) == StaticEntry(path) /\ ~S_ISDIR(stat(Target(path)).sb)

\* The client sent If-Modified-Since with the civil time c.
DateSent(c) ==
  \E fmt \in {"rfc1123", "rfc850", "asctime"} :
    StrStr(buf, CRLF \o IF_MODIFIED_SINCE_PREFIX \o <<" ">> \o DateText(fmt, c) \o CRLF)

\* The client sent no If-Modified-Since.
NoDateSent == ~StrStr(LowerStr(buf), LowerStr(IF_MODIFIED_SINCE_PREFIX))

\* The client received 200, the file's length and the file's bytes.
FullEntity(sb) ==
  /\ StatusIs(RESPONSE_STATUS_OK)
  /\ Len(sock) >= 2
  /\ sock[2].kind = "headers"
  /\ HasField(sock[2], "Content-Length", itoa(st_size(sb)))
  /\ BodyBytes(sock) = sb.data

\* The client received 200, a Content-Length of 0 and no entity byte.
EmptyEntity ==
  /\ StatusIs(RESPONSE_STATUS_OK)
  /\ Len(sock) = 2
  /\ sock[2].kind = "headers"
  /\ HasField(sock[2], "Content-Length", <<"0">>)

\* C7: a GET of a file with If-Modified-Since at or after the file's
\* modification time is answered 200 with Content-Length 0 and no body;
\* with If-Modified-Since absent or earlier than the modification time,
\* the whole file is sent (its reads and writes succeeding).
C7_ConditionalGet ==
  (pc = "done" /\ RequestIs(M_GET) /\ StaticFile(loc.token[2]) /\ ~StreamBroken)
    => /\ \A c \in 0..9 :
            (DateSent(c) /\ c >= stat(Target(loc.token[2])).sb.mtime) => EmptyEntity
       /\ (\/ NoDateSent
           \/ \E c \in 0..9 : DateSent(c) /\ c < stat(Target(loc.token[2])).sb.mtime)
            => FullEntity(stat(Target(loc.token[2])).sb)

\* The lines of the names, in order.
Lines(names) == Concat([i \in 1..Len(names) |-> names[i] \o CRLF])

\* C8: the listing sent for a directory is the title and heading, then
\* every entry whose name does not begin with "." once, one per line, in
\* ascending order, then the closing tags (every write taking all its
\* bytes).
C8_ListingComplete ==
  (pc = "done" /\ list.i > 0 /\ ~StreamBroken)
    => BodyBytes(sock) =
         ListPreamble(newreq.path)
           \o Lines(SortNames({n \in DirNames(Lookup(newreq.path).node) : n[1] # "."}))
           \o ListClosing

\* C9: a three-token HTTP/1.0 GET of a path that names nothing under the
\* served directory is answered with the status line 404 Not Found, the
\* Content-Type text/html and an HTML body that holds "Not Found" and is as
\* long as Content-Length says.
C9_MissingIs404Page ==
  (/\ pc = "done"
   /\ RequestIs(M_GET)
   /\ ~loc.header_parsing_failed
   /\ DefaultForm(loc.token[2])
   /\ access(SERVED_DIR \o loc.token[2], {"R"}) \in {"ENOENT", "ENOTDIR"})
    => /\ StatusIs(RESPONSE_STATUS_NOT_FOUND)
       /\ sock[1].phrase = <<"N","o","t"," ","F","o","u","n","d">>
       /\ Len(sock) = 3
       /\ sock[2].kind = "headers"
       /\ HasField(sock[2], "Content-Type", <<"t","e","x","t","/","h","t","m","l">>)
       /\ HasField(sock[2], "Content-Length", itoa(Len(BodyBytes(sock))))
       /\ sock[3].kind = "body"
       /\ IsPrefix(<<"<","h","t","m","l",">">>, BodyBytes(sock))
       /\ StrStr(BodyBytes(sock), <<"N","o","t"," ","F","o","u","n","d">>)

\* A GET of /zz was answered with the 404 page.
C9_Witness ==
  /\ pc = "done"
  /\ RequestIs(M_GET)
  /\ ~loc.header_parsing_failed
  /\ loc.token[2] = P_MISSING
  /\ StatusIs(RESPONSE_STATUS_NOT_FOUND)
  /\ BodyBytes(sock) # <<>>

\* C10: for a POST of a CGI target without a positive Content-Length no
\* child process is made and the status the client receives is 400.
C10_PostWithoutLengthIs400 ==
  (/\ pc = "done"
   /\ RequestIs(M_POST)
   /\ "execute_cgi" \in Range(trace)
   /\ newreq.content_length <= 0)
    => ~child.forked /\ StatusIs(RESPONSE_STATUS_BAD_REQUEST)

\* The bytes the client sent after the blank line.
BodySent == IF StrStr(sent, Terminator) THEN Drop(sent, FirstEnd(sent)) ELSE <<>>

\* execute_cgi has left the loop of lines 1399-1405 with a child running.
BodyRelayed ==
  \/ pc \in {"cgi_output", "cgi_wait"}
  \/ pc \in {"log", "done"} /\ child.forked

\* C11: for a POST CGI request with Content-Length n > 0, the bytes
\* written to the child's standard input are the first n bytes the client
\* sent after the blank line, in order, however the client's bytes were
\* split across reads.
C11_StdinIsRequestBody ==
  (/\ BodyRelayed
   /\ newreq.method = REQUEST_METHOD_POST
   /\ newreq.content_length > 0)
    => child.stdin = Take(BodySent, newreq.content_length)

\* The bytes the server relayed from the CGI child, in order.
CgiBytes(s) == Concat([i \in 1..Len(s) |-> IF s[i].kind = "cgi" THEN s[i].data ELSE <<>>])

C13_OnlyChildOutput ==
  (pc = "done" /\ loc.cgi_request /\ child.forked /\ child.waited)
    => /\ \A i \in 1..Len(sock) : sock[i].kind = "cgi"
       /\ CgiBytes(sock) = child.stdout

\* C14: when a pipe cannot be made, the fork fails or the program cannot
\* be executed, execute_cgi reports 500 and a failure, never OK, and no
\* child is left.
C14_SpawnFailureIs500 ==
  (pc = "done" /\ child.error # "none")
    => /\ loc.http_status = RESPONSE_STATUS_INTERNAL_SERVER_ERROR
       /\ loc.failure_status = -1
       /\ child.forked => child.waited

\* The idle timeout has fired in wait_for_data.
TimedOut == "timeout" \in Range(trace)

\* C15: when the blank line has not been received within the timeout, the
\* connection ends with the Timeout status, whether no byte arrived in
\* that time or bytes kept arriving without the blank line.
C15_LateBlankLineTimesOut ==
  (pc # "read" /\ clock >= CLIENT_TIMEOUT_SEC)
    => /\ TimedOut
       /\ pc = "exited" => StatusIs(RESPONSE_STATUS_CONNECTION_TIMED_OUT)

\* C16: once the idle timeout has fired the process terminates, without a
\* further read of the socket, parsing, path resolution or logging,
\* whatever became of the writes of the status line and the headers.
C16_TimeoutTerminates == TimedOut => pc = "exited"

\* The first line of the request in b: the bytes before the first CR or LF.
FirstLine(b) == Take(b, FirstIn(b, {CR, LF}) - 1)

\* C17: a request that holds the blank line and whose first line splits on
\* spaces into 0, 1, 4 or more tokens is answered 400.
C17_TokenCountBadRequest ==
  (/\ pc \in {"done", "crashed"}
   /\ StrStr(buf, Terminator)
   /\ Len(Tokens(FirstLine(buf), {" "})) \notin {2, 3})
    => StatusIs(RESPONSE_STATUS_BAD_REQUEST)

\* The request has an If-Modified-Since line whose value is empty, blank
\* or no date.
BadDateSent ==
  \E v \in {<<>>, <<" ">>, <<" ","s","o","o","n">>} :
    StrStr(buf, CRLF \o IF_MODIFIED_SINCE_PREFIX \o v \o CRLF)

\* C18: a request with an If-Modified-Since value that is no HTTP date,
\* the empty value included, is answered 400, and its path is not
\* resolved, no file is served and no CGI program is run for it.
C18_BadDateBadRequest ==
  (pc = "done" /\ StrStr(buf, Terminator) /\ BadDateSent)
    => /\ response.code = RESPONSE_STATUS_BAD_REQUEST
       /\ Range(trace) \subseteq {"log"}
       /\ ~child.forked

\* The request has a Content-Length line whose value is no integer.
BadLengthSent ==
  \E v \in {<<" ","x">>, <<" ","a","b","c">>} : StrStr(buf,
       CRLF \o CONTENT_LENGTH_PREFIX \o v \o CRLF)

\* C19: a Content-Length value that is no integer leaves content_length as
\* init_request set it, as when the header is absent, and does not make
\* the request fail.
C19_BadLengthLeftUnset ==
  (Dispatched /\ BadLengthSent)
    => /\ newreq.content_length = init_request.content_length
       /\ ~loc.header_parsing_failed

\* C20: what is sent for a request line of two tokens does not depend on
\* the header lines after it: for a GET of a regular file with header lines
\* that parse it is the bytes of the file, as it is without header lines
\* (the file's reads and writes succeeding).
C20_SimpleRequestIgnoresHeaders ==
  (/\ pc = "done"
   /\ Len(loc.token) = 2
   /\ ~loc.header_parsing_failed
   /\ ~StreamBroken
   /\ StrCaseEq(loc.token[1], M_GET)
   /\ StaticFile(loc.token[2]))
    => sock = BodyWrites(stat(Target(loc.token[2])).sb.data, BUF_SIZE)

\* The path the client asked for, as it stands in the request line.
AskedPath == loc.token[2]

\* C21: checkuri sets cgi_request exactly when a CGI directory is
\* configured and the requested path begins with /cgi-bin/ (and so not with
\* /~); no path outside that prefix is treated as a CGI request.
C21_CgiOnlyUnderPrefix ==
  Checked =>
    (loc.cgi_request <=> (/\ flag.c_dir # NULL
                          /\ ~IsPrefix(<<"/", "~">>, AskedPath)
                          /\ IsPrefix(CGI_PREFIX, AskedPath)))

\* The access mode the request calls for: read and execute for CGI and
\* POST, read for GET and HEAD.
ModeAsked ==
  IF loc.cgi_request \/ newreq.method = REQUEST_METHOD_POST THEN {"R", "X"} ELSE {"R"}

\* The status an access error stands for.
StatusOfError(errno) ==
  IF errno \in {"EACCES", "EROFS"} THEN 403
  ELSE IF errno \in {"ENAMETOOLONG", "ELOOP"} THEN 400
  ELSE IF errno \in {"ENOENT", "ENOTDIR"} THEN 404
  ELSE 500

\* checkuri built a candidate path and returned.
CandidateChecked == Checked /\ loc.uri_path # Uninit

\* C22: when access() on the candidate fails, the status is the one the
\* error stands for, whether or not the candidate lies under the root; the
\* mode asked for is read and execute for CGI and POST, read for GET and
\* HEAD, and a candidate that passes and lies under the root is OK.
C22_AccessErrorGivesStatus ==
  CandidateChecked =>
    /\ (access(loc.uri_path, ModeAsked) # "OK")
         => loc.http_status = StatusOfError(access(loc.uri_path, ModeAsked))
    /\ (/\ access(loc.uri_path, ModeAsked) = "OK"
        /\ WithinServerDir(realpath(loc.uri_path), loc.server_real_path))
         => loc.http_status = RESPONSE_STATUS_OK

\* A missing entry outside the served directory was asked for and answered
\* Not Found.
C22_Witness ==
  /\ CandidateChecked
  /\ access(loc.uri_path, ModeAsked) = "ENOENT"
  /\ ~IsPrefix(SERVED_DIR, realpath(<<"/","w","/",".",".","/","x">>))
  /\ loc.uri_path = <<"/","w","/",".",".","/","x","/","z","z">>
  /\ loc.http_status = RESPONSE_STATUS_NOT_FOUND

\* The statuses other than OK.
ErrorCodes ==
  {RESPONSE_STATUS_BAD_REQUEST, RESPONSE_STATUS_FORBIDDEN, RESPONSE_STATUS_NOT_FOUND,
   RESPONSE_STATUS_NOT_IMPLEMENTED, RESPONSE_STATUS_VERSION_NOT_SUPPORTED,
   RESPONSE_STATUS_INTERNAL_SERVER_ERROR, RESPONSE_STATUS_CONNECTION_TIMED_OUT}

\* The status the connection ended in: the timeout's, the CGI executor's,
\* or the one of the response.
FinalStatus ==
  IF TimedOut THEN RESPONSE_STATUS_CONNECTION_TIMED_OUT
  ELSE IF "execute_cgi" \in Range(trace) THEN loc.http_status
  ELSE response.code

\* The writes to the client that are an HTML page naming code and a phrase.
PagesSent(code) ==
  {i \in 1..Len(sock) : /\ sock[i].kind = "body"
                        /\ IsPrefix(HtmlOpen, sock[i].data)
                        /\ StrStr(sock[i].data, itoa(code) \o <<" ", "-", " ">>)}

\* C23: a connection that ends in a status other than OK, wherever the
\* status was found, has had exactly one HTML page written to the client,
\* and the page names the code and a phrase.
C23_ErrorHasOnePage ==
  (pc \in {"done", "exited"} /\ FinalStatus \in ErrorCodes)
    => Cardinality(PagesSent(FinalStatus)) = 1

\* The names of the fields of the header block h, in the order written.
FieldNames(h) == [i \in 1..Len(h.fields) |-> h.fields[i].name]

\* The fields a full response for r is to have, in order.
FieldsDue(r) ==
  <<"Date", "Server">>
    \o (IF r.last_modified # -1 THEN <<"Last-Modified">> ELSE <<>>)
    \o (IF r.content_type # <<>> THEN <<"Content-Type">> ELSE <<>>)
    \o (IF r.content_length >= 0 THEN <<"Content-Length">> ELSE <<>>)

\* The place of the last header block written to the client.
LastHeaders == CHOOSE i \in 1..Len(sock) :
                 sock[i].kind = "headers" /\ \A j \in (i + 1)..Len(sock) : sock[j].kind # "headers"

\* C24: a status line is followed at once by its header block and a header
\* block follows a status line; the block that ends the headers of the
\* response holds Date, Server, then Last-Modified if set, Content-Type if
\* not empty and Content-Length if not negative, in this order and nothing
\* else.
C24_FullResponseLayout ==
  /\ \A i \in 1..Len(sock) :
       /\ (sock[i].kind = "status") => (i < Len(sock) /\ sock[i + 1].kind = "headers")
       /\ (sock[i].kind = "headers") => (i > 1 /\ sock[i - 1].kind = "status")
  /\ (\E i \in 1..Len(sock) : sock[i].kind = "headers")
       => FieldNames(sock[LastHeaders]) = FieldsDue(response)

\* A file was sent after a status line and a block of all five fields.
C24_Witness ==
  /\ pc = "done"
  /\ Len(sock) >= 3
  /\ sock[1].kind = "status"
  /\ FieldNames(sock[2]) = <<"Date", "Server", "Last-Modified", "Content-Type", "Content-Length">>
  /\ sock[3].kind = "body"

\* The canonical path of the entry the request named.
Canonical == realpath(loc.uri_path)

\* The entry index.html of the directory dir.
IndexEntry(dir) == dir \o <<"/">> \o INDEX_HTML

\* path names an entry that exists, is no directory and can be read.
ReadableFile(path) ==
  /\ Lookup(path).err = "OK"
  /\ FS[Lookup(path).node].type # "dir"
  /\ FS[Lookup(path).node].r

\* checkuri returned OK for a request that is no CGI request.
StaticOk == Checked /\ loc.http_status = RESPONSE_STATUS_OK /\ ~loc.cgi_request

\* C25: when checkuri succeeds on a directory that is no CGI target, the
\* path returned is the directory's index.html if that entry exists, is no
\* directory and can be read, and the directory itself otherwise; for a
\* target that is no directory it is the target.
C25_IndexSubstitution ==
  StaticOk =>
    loc.realpath_str =
      (IF FS[Lookup(Canonical).node].type = "dir" /\ ReadableFile(IndexEntry(Canonical))
       THEN IndexEntry(Canonical)
       ELSE Canonical)

\* A directory with a readable index.html was asked for.
C25_Witness ==
  /\ StaticOk
  /\ Canonical = <<"/","w","/","d">>
  /\ loc.realpath_str = <<"/","w","/","d","/","i","n","d","e","x",".","h","t","m","l">>

\* The environment env holds an entry of this name and value.
HasEnv(env, name, value) == \E i \in 1..Len(env) : env[i] = name \o <<"=">> \o value

\* The environment env holds an entry of this name.
HasEnvName(env, name) == \E i \in 1..Len(env) : IsPrefix(name \o <<"=">>, env[i])

\* The text of the requested path after its first '?'.
QueryText == Drop(AskedPath, FirstIn(AskedPath, {"?"}))

\* C26: the child of a GET or HEAD request whose path holds a '?' has
\* QUERY_STRING set to the text after the first '?', and the child of every
\* request has REQUEST_METHOD, CONTENT_LENGTH and CONTENT_TYPE.
C26_ChildEnvironment ==
  child.forked =>
    /\ (/\ newreq.method \in {REQUEST_METHOD_GET, REQUEST_METHOD_HEAD}
        /\ "?" \in Range(AskedPath))
         => HasEnv(child.env, <<"Q","U","E","R","Y","_","S","T","R","I","N","G">>, QueryText)
    /\ HasEnvName(child.env, <<"R","E","Q","U","E","S","T","_","M","E","T","H","O","D">>)
    /\ HasEnvName(child.env, <<"C","O","N","T","E","N","T","_","L","E","N","G","T","H">>)
    /\ HasEnvName(child.env, <<"C","O","N","T","E","N","T","_","T","Y","P","E">>)

\* checkuri, fileserver or execute_cgi has been called.
Resolving == Range(trace) \cap {"checkuri", "fileserver", "execute_cgi"} # {}

\* The request line names a method the server has and, with three tokens,
\* begins its version with HTTP/1.0.
LineValid ==
  /\ Len(loc.token) \in {2, 3}
  /\ \E m \in {M_GET, M_HEAD, M_POST} : StrCaseEq(loc.token[1], m)
  /\ (Len(loc.token) = 3) => StrNCaseEq(loc.token[3], HTTP_VERSION_1, Len(HTTP_VERSION_1))

C28_StreamFailureAborts ==
  StreamBroken =>
    /\ pc \in {"log", "done"}
    /\ loc.failure_status = -1
    /\ Cardinality({i \in 1..Len(sock) : sock[i].kind = "status"}) <= 1
    /\ \A code \in ErrorCodes : PagesSent(code) = {}

\* The client sent the date time_to_http_date makes of t as its
\* If-Modified-Since.
SentDateOf(t) ==
  StrStr(buf, CRLF \o IF_MODIFIED_SINCE_PREFIX \o <<" ">> \o time_to_http_date(t) \o CRLF)

\* C29: a date made by time_to_http_date from a time t is parsed by
\* http_date_to_time back to t, whatever the offset of the server's time
\* zone.
C29_DateRoundTrip ==
  \A t \in 0..9 :
    (Dispatched /\ SentDateOf(t))
      => (~loc.header_parsing_failed /\ newreq.if_modified_since_date = t)

\* What follows /cgi-bin/ in the requested path, up to its first '?'.
CgiRest ==
  Take(Drop(AskedPath, Len(CGI_PREFIX)),
       FirstIn(Drop(AskedPath, Len(CGI_PREFIX)), {"?"}) - 1)

\* C30: for a path /cgi-bin/<rest> and a CGI directory R, the candidate
\* path is the entry <rest> inside R, whether or not R ends with "/".
C30_CandidateInsideCgiRoot ==
  (/\ CandidateChecked
   /\ flag.c_dir # NULL
   /\ IsPrefix(CGI_PREFIX, AskedPath))
    => Segments(loc.uri_path) = Segments(flag.c_dir) \o Segments(CgiRest)

\* C31: a request line of two tokens whose method is not GET is answered
\* with the page 501 Not Implemented, and nothing is resolved, read or run
\* for it.
C31_SimpleNonGetIs501 ==
  (pc = "done" /\ Len(loc.token) = 2 /\ ~StrCaseEq(loc.token[1], M_GET))
    => /\ response.code = RESPONSE_STATUS_NOT_IMPLEMENTED
       /\ Cardinality(PagesSent(RESPONSE_STATUS_NOT_IMPLEMENTED)) = 1
       /\ ~Resolving

\* C32: the request buffer never holds more than BUF_SIZE - 1 bytes, and a
\* request that ends, by a full buffer or by the client closing, without a
\* blank line is answered 400 Bad Request.
C32_RequestBufferBounded ==
  /\ Len(buf) <= BUF_SIZE - 1
  /\ (pc = "done" /\ ~StrStr(buf, Terminator) /\ ~TimedOut)
       => (StatusIs(RESPONSE_STATUS_BAD_REQUEST)
           /\ Cardinality(PagesSent(RESPONSE_STATUS_BAD_REQUEST)) = 1)

\* A request longer than the buffer filled it and was answered 400.
C32_Witness ==
  /\ pc = "done"
  /\ Len(sent) > BUF_SIZE
  /\ Len(buf) = BUF_SIZE - 1
  /\ wire # <<>>
  /\ StatusIs(RESPONSE_STATUS_BAD_REQUEST)

\* The node of the file a GET or HEAD of the requested path is answered
\* from: the path itself or the index.html put in its place.
Served == stat(Target(AskedPath)).sb

\* A full response with status OK was completed for a GET or HEAD of a
\* regular file that is no CGI target.
FileAnswered ==
  /\ pc = "done"
  /\ RequestIs(M_GET) \/ RequestIs(M_HEAD)
  /\ StaticFile(AskedPath)
  /\ ~StreamBroken
  /\ StatusIs(RESPONSE_STATUS_OK)
  /\ Len(sock) >= 2
  /\ sock[2].kind = "headers"

\* The headers give the file's modification time and size, and a GET is
\* followed by the file's bytes.
WholeFileAnnounced ==
  /\ HasField(sock[2], "Last-Modified", time_to_http_date(Served.mtime))
  /\ HasField(sock[2], "Content-Length", itoa(st_size(Served)))
  /\ RequestIs(M_GET) => BodyBytes(sock) = Served.data

ConditionalHit == RequestIs(M_GET) /\ NotModified(newreq, Served, tz)

HasFieldName(h, name) == \E i \in 1..Len(h.fields) : h.fields[i].name = name

\* The bytes the client received after the headers.
EntityLength == Len(BodyBytes(sock)) + Len(CgiBytes(sock))

\* C34: in a full response to a GET that the server completed with success
\* and that has a Content-Length header, the bytes sent after the blank
\* line are as many as the header says.
C34_ContentLengthIsBodyLength ==
  (/\ pc = "done"
   /\ RequestIs(M_GET)
   /\ loc.failure_status = 0
   /\ ~StreamBroken
   /\ Len(sock) >= 2
   /\ sock[2].kind = "headers"
   /\ HasFieldName(sock[2], "Content-Length"))
    => HasField(sock[2], "Content-Length", itoa(EntityLength))

\* The lines of the request buffer, as strtok splits it.
BufLines == Tokens(buf, {CR, LF})

\* C35: for every request that holds a blank line, also one without a
\* request line, httpd does not fault and writes a response.
C35_TerminatedRequestAnswered ==
  StrStr(buf, Terminator) =>
    /\ pc # "crashed"
    /\ (pc = "done" /\ BufLines = <<>>) => sock # <<>>

\* The request up to the end of its first blank line.
HeaderSection == Take(sent, FirstEnd(sent))

\* What the header lines of the header section parse to.
HeadersDue == ParseHeaders(init_request, Tail(Tokens(HeaderSection, {CR, LF})), tz)

\* C36: the If-Modified-Since, Content-Length and Content-Type parsed, and
\* whether parsing failed, are those of the lines between the request line
\* and the first blank line, whatever follows the blank line in the buffer.
C36_BodyNotParsedAsHeaders ==
  (Dispatched /\ StrStr(buf, Terminator) /\ BufLines # <<>>) =>
    /\ newreq.if_modified_since_date = HeadersDue.request.if_modified_since_date
    /\ newreq.content_length = HeadersDue.request.content_length
    /\ newreq.content_type = HeadersDue.request.content_type
    /\ loc.header_parsing_failed = HeadersDue.failed

\* The parent's relay is over: execute_cgi has returned.
RelayOver == pc = "log"

\* C37: with bounded pipes and a program that reads the whole body and
\* writes its whole output in whatever order, the parent's relay finishes.
C37_RelayFinishes == <>RelayOver

\* The positions of the status lines among the writes to the socket.
StatusLines == {k \in 1..Len(sock) : sock[k].kind = "status"}

\* C38: at most one status line is written on a connection, and none after
\* entity bytes.
C38_OneStatusLine ==
  /\ Cardinality(StatusLines) <= 1
  /\ \A k \in StatusLines : \A j \in 1..(k - 1) : sock[j].kind \notin {"body", "cgi"}

C38_Witness ==
  /\ pc = "done"
  /\ "short write" \in Range(trace)
  /\ Cardinality(StatusLines) = 1
  /\ BodyBytes(sock) # <<>>

\* C39: the response to a full HEAD request holds no entity bytes, whatever
\* its status.
C39_HeadHasNoBody ==
  (Dispatched /\ RequestIs(M_HEAD)) => EntityLength = 0

\* The canonical path of the file checkuri returned.
Streamed == realpath(loc.realpath_str)

\* C40: when checkuri answers OK for a directory under the root and returns
\* the directory's index.html in its place, that index.html names a file
\* under the root the request was resolved against.
C40_IndexStaysInsideRoot ==
  (/\ pc = "done"
   /\ "checkuri" \in Range(trace)
   /\ loc.http_status = RESPONSE_STATUS_OK
   /\ ~loc.cgi_request
   /\ StatusIs(RESPONSE_STATUS_OK)
   /\ UnderRoot(Canonical, loc.server_real_path)
   /\ loc.realpath_str = IndexEntry(Canonical))
    => (Streamed # NULL /\ UnderRoot(Streamed, loc.server_real_path))
====
